---- MODULE Spec2Model ----
(***************************************************************************)
(* Early Health Guardian: the due-reminder dispatcher (api/cron-reminders),  *)
(* the goal checker (scripts/goal-checker), the risk heuristic and alert   *)
(* predicate (src/lib/agent.ts), the basic diabetes scorers and the        *)
(* vitals, symptom and reminders pages, modelled as state machines over    *)
(* the hosted store's tables.                                              *)
(*                                                                         *)
(* Time is counted in whole hours since 1970-01-01T00:00Z, and every       *)
(* calendar operation goes through the year/month/day decomposition that   *)
(* the JavaScript Date object performs (server timezone UTC).              *)
(***************************************************************************)
EXTENDS Integers, Sequences, FiniteSets, TLC

\* ------------------------------------------------------------------ bounds
\* number of handler invocations in one behaviour
MaxRuns == 2
\* number of external calls that may fail (non-success response or raised error)
MaxFaults == 1
\* number of times the scheduler clock advances between runs
MaxTicks == 1

\* ---------------------------------------------------------------- calendar
IsLeap(y) == (y % 4 = 0 /\ y % 100 # 0) \/ y % 400 = 0

DaysInYear(y) == IF IsLeap(y) THEN 366 ELSE 365

\* m is a JavaScript month index, 0 = January
DaysInMonth(y, m) ==
  IF m = 1 THEN (IF IsLeap(y) THEN 29 ELSE 28)
  ELSE IF m \in {3, 5, 8, 10} THEN 30 ELSE 31

\* ECMAScript DayFromYear: days from 1970-01-01 to January 1st of year y
DaysBeforeYear(y) ==
  365 * (y - 1970) + ((y - 1969) \div 4) - ((y - 1901) \div 100) + ((y - 1601) \div 400)

RECURSIVE DaysBeforeMonth(_, _)
DaysBeforeMonth(y, m) == IF m <= 0 THEN 0 ELSE DaysBeforeMonth(y, m - 1) + DaysInMonth(y, m - 1)

\* ECMAScript MakeDay: month and date may lie outside their range and carry over
MakeDay(y, m, dt) ==
  LET ym == y + (m \div 12)
      mn == m % 12
  IN DaysBeforeYear(ym) + DaysBeforeMonth(ym, mn) + dt - 1

MakeTime(y, m, dt, h) == MakeDay(y, m, dt) * 24 + h

\* ECMAScript YearFromTime: the largest y with DaysBeforeYear(y) <= d
RECURSIVE YearFromDays(_, _)
YearFromDays(y, d) == IF DaysBeforeYear(y + 1) > d THEN y ELSE YearFromDays(y + 1, d)

RECURSIVE MonthFromDays(_, _, _)
MonthFromDays(y, m, d) ==
  IF d < DaysInMonth(y, m) THEN m ELSE MonthFromDays(y, m + 1, d - DaysInMonth(y, m))

getFullYear(t) == YearFromDays(1970 + ((t \div 24) \div 366), t \div 24)
getMonth(t) == MonthFromDays(getFullYear(t), 0, (t \div 24) - DaysBeforeYear(getFullYear(t)))
getDate(t) ==
  (t \div 24) - DaysBeforeYear(getFullYear(t)) - DaysBeforeMonth(getFullYear(t), getMonth(t)) + 1
getHours(t) == t % 24
\* 1970-01-01 was a Thursday; 0 = Sunday
getDay(t) == ((t \div 24) + 4) % 7

setDate(t, dt) == MakeTime(getFullYear(t), getMonth(t), dt, getHours(t))
setMonth(t, m) == MakeTime(getFullYear(t), m, getDate(t), getHours(t))

\* ------------------------------------------------------------ store values
Null == <<>>
Some(v) == <<v>>
Val(o) == o[1]

Owners == {"u1", "u2"}
Repeats == {"null", "none", "daily", "weekly", "monthly", "custom"}

\* the instant of the first scheduled run: Wednesday 2024-01-31T10:00Z
T0 == MakeTime(2024, 0, 31, 10)
TickHours == 24

\* rows of the reminders table as the dispatcher reads them (remind_at, sent)
Row(u, rep, at, s) ==
  [user_id |-> u, repeat |-> rep, remind_at |-> Some(at), sent |-> s, sent_at |-> Null]

\* the reminders table before the first run
SeedTables ==
  { << Row("u1", "daily",   T0 - 1,  FALSE), Row("u1", "none",   T0 - 2,  FALSE) >>,
    << Row("u1", "none",    T0 - 2,  FALSE), Row("u1", "daily",  T0 - 1,  FALSE) >>,
    << Row("u2", "null",    T0,      FALSE), Row("u2", "custom", T0 - 2,  FALSE) >>,
    << Row("u1", "daily",   T0 - 50, FALSE), Row("u2", "weekly", T0 - 50, FALSE) >>,
    << Row("u1", "monthly", T0 - 1,  FALSE), Row("u1", "none",   T0 - 2,  TRUE),
       Row("u2", "daily",   T0 + 5,  FALSE) >>,
    << Row("u1", "none",    T0 - 2,  TRUE),  Row("u2", "daily",  T0 + 5,  FALSE) >>,
    << Row("u2", "weekly",  T0 - 1,  FALSE), Row("u2", "none",   T0 - 2,  FALSE) >>,
    << Row("u1", "custom",  T0 - 2,  FALSE), Row("u2", "daily",  T0 - 1,  FALSE) >> }

\* the caregivers table: rows (patient_id, email); "" is a caregiver without email
CaregiverTables ==
  { { [patient_id |-> "u1", email |-> "cg@mail"] },
    { [patient_id |-> "u1", email |-> ""], [patient_id |-> "u2", email |-> "cg2@mail"] },
    { [patient_id |-> "u1", email |-> "cg@mail"], [patient_id |-> "u2", email |-> "cg2@mail"] } }

Invs == {1, 2}
Methods == {"GET", "POST", "PUT"}

VARIABLES
  now,              \* the wall clock, hours since the epoch
  ticks,            \* clock advances so far
  runs,             \* handler invocations started so far
  faults,           \* failed external calls so far
  MAILER_URL,       \* TRUE iff process.env.MAILER_URL is set
  reminders,        \* the reminders table, id = index
  caregivers,       \* the caregivers table
  notifications,    \* the notifications table, id = index
  mailLog,          \* POSTs the dispatcher issued to the mail relay
  frame,            \* per invocation: the handler's locals and position
  localStorage,     \* the browser's localStorage item "user"
  vitals,           \* the snapshot handed to computeRisks
  profile,          \* the profile handed to the dashboard scorers
  risks,            \* the risk mapping computeRisks returned, Null when there is none
  risks2,           \* what a second call on the same snapshot returned
  basicRisk,        \* what each basic diabetes scorer returned, Null before its call
  alert,            \* what shouldAlert returned, Null before the call
  env,              \* which of the jobs' environment variables are set
  storeReqs,        \* HTTP requests the current (or last) job run issued to the store
  health_goals,     \* the health_goals table, in the order the store returns it
  health_data,      \* the health_data table
  checker,          \* the goal checker process: its locals and position
  session,          \* the id of the signed-in user, "null" when nobody is signed in
  form,             \* the running form handler: its locals and position
  insights,         \* the health_insights table
  symptomsTable,    \* the symptoms table
  notifyLog         \* POSTs the forms issued to /api/notify

formVars == <<session, form, insights, symptomsTable, notifyLog>>
evalVars == <<localStorage, vitals, profile, risks, risks2, basicRisk, alert, formVars>>
goalVars == <<health_goals, health_data, checker>>
batchVars == <<now, ticks, runs, faults, MAILER_URL, reminders, caregivers,
               notifications, mailLog, frame, env, storeReqs, goalVars>>

vars == <<batchVars, evalVars>>

NoResp == [ok |-> FALSE, id |-> 0]
NoResponse == [status |-> 0, ok |-> FALSE, processed |-> 0, results |-> <<>>]
NoLog == [cg |-> "none", notif |-> "none", mail |-> "none", npatch |-> "none", rpatch |-> "none"]

IdleFrame ==
  [pc |-> "idle", run |-> 0, runNow |-> 0, fetch |-> "none", due |-> <<>>, idx |-> 0,
   recipients |-> {},
   notifResp |-> NoResp, mailRes |-> "null", results |-> <<>>, response |-> NoResponse,
   log |-> <<>>]

\* the goal checker before its first run
NoGoalLog ==
  [at |-> 0, periodStart |-> 0, metric |-> "none", value |-> Null, missed |-> FALSE, ins |-> "none"]
IdleChecker ==
  [pc |-> "idle", run |-> 0, fetch |-> "none", goals |-> <<>>, idx |-> 0,
   exitCode |-> Null, log |-> <<>>]

\* process.env of the two jobs: SUPABASE_URL, the dispatcher's
\* SUPABASE_SERVICE_ROLE_KEY and the goal checker's SUPABASE_SERVICE_ROLE
EnvAllSet == [SUPABASE_URL |-> TRUE, SUPABASE_KEY |-> TRUE, SERVICE_KEY |-> TRUE]

NoBasicRisk == [agent |-> Null, dashboard |-> Null, addData |-> Null]

\* the scheduler and the counters at the start of a behaviour
ClockInit ==
  /\ now = T0
  /\ ticks = 0
  /\ runs = 0
  /\ faults = 0
  /\ storeReqs = 0

\* no dispatcher data: empty tables, no invocation
DispatcherIdle ==
  /\ MAILER_URL = FALSE
  /\ reminders = <<>>
  /\ caregivers = {}
  /\ notifications = <<>>
  /\ mailLog = <<>>
  /\ frame = [i \in Invs |-> IdleFrame]

\* no goal data, the goal checker not started
GoalIdle ==
  /\ health_goals = <<>>
  /\ health_data = <<>>
  /\ checker = IdleChecker

\* a form handler before its first submit
IdleForm ==
  [kind |-> "none", pc |-> "idle", run |-> 0, userId |-> "null", primary |-> "none",
   insight |-> "none", notif |-> "none", followUp |-> "none",
   urgent |-> FALSE, moderate |-> FALSE, critical |-> FALSE,
   input |-> [selected |-> {}, severity |-> <<>>],
   patientEmail |-> "null", carers |-> {}, carer |-> Null, idx |-> 0, emails |-> {}]

\* nobody signed in, no form submitted, the forms' tables empty
FormIdle ==
  /\ session = "null"
  /\ form = IdleForm
  /\ insights = <<>>
  /\ symptomsTable = <<>>
  /\ notifyLog = <<>>

\* the browser side at rest: nothing evaluated
EvalIdle ==
  /\ FormIdle
  /\ localStorage = [t |-> "absent", age |-> 0]
  /\ vitals = [kind |-> "undefined"]
  /\ profile = [kind |-> "undefined"]
  /\ risks = Null
  /\ risks2 = Null
  /\ basicRisk = NoBasicRisk
  /\ alert = Null

\* the dispatcher's tables before the first run
DispatcherInit ==
  /\ MAILER_URL \in BOOLEAN
  /\ \E rows \in SeedTables :
       reminders = [k \in DOMAIN rows |-> [id |-> k] @@ rows[k]]
  /\ caregivers \in CaregiverTables
  /\ notifications = <<>>
  /\ mailLog = <<>>
  /\ frame = [i \in Invs |-> IdleFrame]

Init ==
  /\ ClockInit
  /\ env = EnvAllSet
  /\ DispatcherInit
  /\ GoalIdle
  /\ EvalIdle

\* outcome of one external call: a success response, a non-success response,
\* or a rejected fetch (the call raises)
Outcomes == IF faults < MaxFaults THEN {"ok", "fail", "throw"} ELSE {"ok"}
Charge(o) == faults' = IF o = "ok" THEN faults ELSE faults + 1

\* ------------------------------------------------------------- dispatcher
\* addRepeat with the weekly increment pasted into the daily branch
addRepeat_dailyAsWeekly(remindAt, repeat) ==
  IF repeat \in {"null", "none"} THEN Null
  ELSE LET dt == Val(remindAt)
       IN Some(CASE repeat = "daily"   -> setDate(dt, getDate(dt) + 7)
                 [] repeat = "weekly"  -> setDate(dt, getDate(dt) + 7)
                 [] repeat = "monthly" -> setMonth(dt, getMonth(dt) + 1)
                 [] OTHER              -> dt)

addRepeat(remindAt, repeat) ==
  IF repeat \in {"null", "none"} THEN Null
  ELSE LET dt == Val(remindAt)
       IN Some(CASE repeat = "daily"   -> setDate(dt, getDate(dt) + 1)
                 [] repeat = "weekly"  -> setDate(dt, getDate(dt) + 7)
                 [] repeat = "monthly" -> setMonth(dt, getMonth(dt) + 1)
                 [] OTHER              -> dt)

\* the due query without its sent=eq.false filter
DueIds_ignoreSent(t) ==
  {k \in DOMAIN reminders :
     /\ "remind_at" \in DOMAIN reminders[k]
     /\ reminders[k].remind_at # Null
     /\ Val(reminders[k].remind_at) <= t}

\* rows matching remind_at=lte.<now>&sent=eq.false; a column the writer of a
\* row did not name is NULL, and NULL matches no filter
DueIds(t) ==
  {k \in DOMAIN reminders :
     /\ "remind_at" \in DOMAIN reminders[k]
     /\ reminders[k].remind_at # Null
     /\ Val(reminders[k].remind_at) <= t
     /\ "sent" \in DOMAIN reminders[k]
     /\ reminders[k].sent = FALSE}

\* the response body of the fetch, rows in id order
DueRows(t) ==
  LET ids == DueIds(t)
      nth[n \in 0..Cardinality(ids)] ==
        IF n = 0 THEN <<>>
        ELSE LET prev == nth[n - 1]
                 k == CHOOSE k \in ids :
                        /\ \A j \in DOMAIN prev : prev[j].id < k
                        /\ \A m \in ids : (\A j \in DOMAIN prev : prev[j].id < m) => k <= m
             IN Append(prev, reminders[k])
  IN nth[Cardinality(ids)]

\* the outer catch: res.status(500).json({ ok: false, error })
Abort(f) ==
  [f EXCEPT !.pc = "done",
            !.response = [status |-> 500, ok |-> FALSE, processed |-> 0, results |-> <<>>]]

Running(i) == frame[i].pc \notin {"idle", "done"}
CheckerRunning == checker.pc \notin {"idle", "exited"}

\* what the store answers to the first request: without a service key the
\* request goes out with "Bearer undefined" and is refused
FetchOutcomes == IF env.SUPABASE_KEY THEN Outcomes ELSE {"fail"}
FirstOutcome == CHOOSE o \in FetchOutcomes : TRUE
ChargeFetch(o) == faults' = IF o = "ok" \/ ~env.SUPABASE_KEY THEN faults ELSE faults + 1

\* handler entry: method check, then 1) fetch due reminders
HandlerStart(i) ==
  /\ ~Running(i)
  /\ runs < MaxRuns
  /\ runs' = runs + 1
  /\ \E method \in Methods, o \in FetchOutcomes :
       LET f0 == [IdleFrame EXCEPT !.run = runs + 1, !.runNow = now]
           due == DueRows(now)
       IN IF method \notin {"GET", "POST"}
          THEN /\ o = FirstOutcome
               /\ faults' = faults
               /\ storeReqs' = 0
               /\ frame' = [frame EXCEPT ![i] =
                    [f0 EXCEPT !.pc = "done", !.response = [NoResponse EXCEPT !.status = 405]]]
          ELSE IF ~env.SUPABASE_URL
          THEN \* SUPABASE_URL.replace raises before any fetch
               /\ o = FirstOutcome
               /\ faults' = faults
               /\ storeReqs' = 0
               /\ frame' = [frame EXCEPT ![i] = Abort(f0)]
          ELSE /\ ChargeFetch(o)
               /\ storeReqs' = 1
               /\ IF o = "ok"
                  THEN frame' = [frame EXCEPT ![i] =
                         IF due = <<>>
                         THEN [f0 EXCEPT !.pc = "done", !.fetch = o,
                                         !.response = [status |-> 200, ok |-> TRUE,
                                                       processed |-> 0, results |-> <<>>]]
                         ELSE [f0 EXCEPT !.pc = "lookup", !.fetch = o, !.due = due, !.idx = 1,
                                         !.log = [k \in DOMAIN due |-> NoLog]]]
                  ELSE frame' = [frame EXCEPT ![i] = Abort([f0 EXCEPT !.fetch = o])]
  /\ UNCHANGED <<now, ticks, MAILER_URL, reminders, caregivers, notifications, mailLog, env, goalVars, evalVars>>

\* the caregiver emails without .filter(Boolean)
caregiverEmails_noFilter(user_id) ==
  {c.email : c \in {c \in caregivers : c.patient_id = user_id}}

\* cgResp.body.map(c => c.email).filter(Boolean) over caregivers?patient_id=eq.<user_id>
caregiverEmails(user_id) ==
  {c.email : c \in {c \in caregivers : c.patient_id = user_id /\ c.email # ""}}

\* caregivers?patient_id=eq.<r.user_id>, inside its own try/catch
CaregiverLookup(i) ==
  LET f == frame[i]
      r == f.due[f.idx]
      emails == caregiverEmails(r.user_id)
  IN /\ f.pc = "lookup"
     /\ \E o \in Outcomes :
          /\ Charge(o)
          /\ storeReqs' = storeReqs + 1
          /\ frame' = [frame EXCEPT ![i] =
               [f EXCEPT !.pc = "notif",
                         !.recipients = IF o = "ok" THEN emails ELSE {},
                         !.mailRes = "null",
                         !.log[f.idx].cg = o]]
     /\ UNCHANGED <<now, ticks, runs, MAILER_URL, reminders, caregivers, notifications, mailLog, env, goalVars, evalVars>>

\* the handler without its sendMail call
AfterNotif_neverMails(f) ==
  [f EXCEPT !.pc = "remPatch", !.log[f.idx].mail = "skip"]

\* a handler that skips the mail when another invocation already recorded a
\* notification for the reminder
AfterNotif_skipIfNotified(f) ==
  IF /\ f.recipients # {}
     /\ ~\E n \in DOMAIN notifications :
           /\ notifications[n].reminder_id = f.due[f.idx].id
           /\ notifications[n].run # f.run
  THEN IF MAILER_URL
       THEN [f EXCEPT !.pc = "mail"]
       ELSE [f EXCEPT !.pc = "remPatch", !.mailRes = "fail", !.log[f.idx].mail = "unconfigured"]
  ELSE [f EXCEPT !.pc = "remPatch", !.log[f.idx].mail = "skip"]

\* where the handler goes once the notification insert has answered
AfterNotif(f) ==
  IF f.recipients # {}
  THEN IF MAILER_URL
       THEN [f EXCEPT !.pc = "mail"]
       ELSE [f EXCEPT !.pc = "remPatch", !.mailRes = "fail", !.log[f.idx].mail = "unconfigured"]
  ELSE [f EXCEPT !.pc = "remPatch", !.log[f.idx].mail = "skip"]

\* POST notifications [notif], status "pending"
InsertNotification(i) ==
  LET f == frame[i]
      r == f.due[f.idx]
      notif == [user_id |-> r.user_id, channel |-> "email", status |-> "pending",
                reminder_id |-> r.id, created_at |-> now, run |-> f.run]
  IN /\ f.pc = "notif"
     /\ \E o \in Outcomes :
          /\ Charge(o)
          /\ storeReqs' = storeReqs + 1
          /\ notifications' = IF o = "ok" THEN Append(notifications, notif) ELSE notifications
          /\ frame' = [frame EXCEPT ![i] =
               IF o = "throw"
               THEN Abort([f EXCEPT !.log[f.idx].notif = o])
               ELSE AfterNotif([f EXCEPT !.log[f.idx].notif = o,
                                         !.notifResp = IF o = "ok"
                                                       THEN [ok |-> TRUE, id |-> Len(notifications) + 1]
                                                       ELSE NoResp])]
     /\ UNCHANGED <<now, ticks, runs, MAILER_URL, reminders, caregivers, mailLog, env, goalVars, evalVars>>

\* the status promotion guarded by notifResp.ok alone, mailRes.ok forgotten
AfterMail_ignoreMailOk(f, o) ==
  [f EXCEPT !.log[f.idx].mail = o,
            !.mailRes = o,
            !.pc = IF f.notifResp.ok /\ f.notifResp.id # 0
                   THEN "notifPatch" ELSE "remPatch"]

\* where the handler goes once the mail relay has answered with outcome o
AfterMail(f, o) ==
  [f EXCEPT !.log[f.idx].mail = o,
            !.mailRes = o,
            !.pc = IF f.notifResp.ok /\ o = "ok" /\ f.notifResp.id # 0
                   THEN "notifPatch" ELSE "remPatch"]

\* sendMail: POST to MAILER_URL
SendMail(i) ==
  LET f == frame[i]
      r == f.due[f.idx]
  IN /\ f.pc = "mail"
     /\ \E o \in Outcomes :
          /\ Charge(o)
          /\ mailLog' = Append(mailLog, [run |-> f.run, reminder_id |-> r.id,
                                         to |-> f.recipients, outcome |-> o])
          /\ frame' = [frame EXCEPT ![i] =
               IF o = "throw"
               THEN Abort([f EXCEPT !.log[f.idx].mail = o])
               ELSE AfterMail(f, o)]
     /\ UNCHANGED <<storeReqs, now, ticks, runs, MAILER_URL, reminders, caregivers, notifications, env, goalVars, evalVars>>

\* PATCH notifications?id=eq.<notifId> { status: 'sent' }, inside its own try/catch
PatchNotification(i) ==
  LET f == frame[i]
  IN /\ f.pc = "notifPatch"
     /\ \E o \in Outcomes :
          /\ Charge(o)
          /\ storeReqs' = storeReqs + 1
          /\ notifications' = IF o = "ok"
                              THEN [notifications EXCEPT ![f.notifResp.id].status = "sent"]
                              ELSE notifications
          /\ frame' = [frame EXCEPT ![i] = [f EXCEPT !.pc = "remPatch", !.log[f.idx].npatch = o]]
     /\ UNCHANGED <<now, ticks, runs, MAILER_URL, reminders, caregivers, mailLog, env, goalVars, evalVars>>

\* the PATCH body always { remind_at: next }, also when next is null
Patched_alwaysReschedule(row, r) ==
  [row EXCEPT !.remind_at = addRepeat(r.remind_at, r.repeat)]

\* a PATCH that advances from the stored due time, not from the row as fetched
Patched_fromStoredRow(row, r) ==
  IF r.repeat \notin {"null", "none"} /\ addRepeat(row.remind_at, r.repeat) # Null
  THEN [row EXCEPT !.remind_at = addRepeat(row.remind_at, r.repeat)]
  ELSE [row EXCEPT !.sent = TRUE, !.sent_at = Some(now)]

\* the row after PATCH reminders?id=eq.<r.id> with the body the handler sends
Patched(row, r) ==
  IF r.repeat \notin {"null", "none"} /\ addRepeat(r.remind_at, r.repeat) # Null
  THEN [row EXCEPT !.remind_at = addRepeat(r.remind_at, r.repeat)]
  ELSE [row EXCEPT !.sent = TRUE, !.sent_at = Some(now)]

Result(r) ==
  IF r.repeat \notin {"null", "none"} /\ addRepeat(r.remind_at, r.repeat) # Null
  THEN [id |-> r.id, action |-> "rescheduled", next |-> addRepeat(r.remind_at, r.repeat)]
  ELSE [id |-> r.id, action |-> "marked_sent", next |-> Null]

\* mark reminder as sent or reschedule if repeating; after the last item, respond
PatchReminder(i) ==
  LET f == frame[i]
      r == f.due[f.idx]
      res == Append(f.results, Result(r))
  IN /\ f.pc = "remPatch"
     /\ \E o \in Outcomes :
          /\ Charge(o)
          /\ storeReqs' = storeReqs + 1
          /\ reminders' = IF o = "ok"
                          THEN [reminders EXCEPT ![r.id] = Patched(@, r)]
                          ELSE reminders
          /\ frame' = [frame EXCEPT ![i] =
               IF o = "throw"
               THEN Abort([f EXCEPT !.log[f.idx].rpatch = o])
               ELSE IF f.idx < Len(f.due)
               THEN [f EXCEPT !.log[f.idx].rpatch = o, !.results = res,
                              !.idx = f.idx + 1, !.pc = "lookup",
                              !.recipients = {}, !.notifResp = NoResp, !.mailRes = "null"]
               ELSE [f EXCEPT !.log[f.idx].rpatch = o, !.results = res,
                              !.pc = "done",
                              !.response = [status |-> 200, ok |-> TRUE,
                                            processed |-> Len(res), results |-> res]]]
     /\ UNCHANGED <<now, ticks, runs, MAILER_URL, caregivers, notifications, mailLog, env, goalVars, evalVars>>

\* the external scheduler waits a day between invocations
Tick ==
  /\ \A i \in Invs : ~Running(i)
  /\ ~CheckerRunning
  /\ ticks < MaxTicks
  /\ ticks' = ticks + 1
  /\ now' = now + TickHours
  /\ UNCHANGED <<storeReqs, runs, faults, MAILER_URL, reminders, caregivers, notifications, mailLog, frame, env, goalVars, evalVars>>

\* scheduled invocations that do not overlap: one handler at a time
Next ==
  \/ HandlerStart(1)
  \/ CaregiverLookup(1)
  \/ InsertNotification(1)
  \/ SendMail(1)
  \/ PatchNotification(1)
  \/ PatchReminder(1)
  \/ Tick

Spec == Init /\ [][Next]_vars

\* the dispatcher deployed with any subset of its two store settings
InitEnv ==
  /\ ClockInit
  /\ env \in [SUPABASE_URL : BOOLEAN, SUPABASE_KEY : BOOLEAN, SERVICE_KEY : {TRUE}]
  /\ DispatcherInit
  /\ GoalIdle
  /\ EvalIdle

SpecEnv == InitEnv /\ [][Next]_vars

\* ------------------------------------------------------------ overlapping invocations
\* the tables two invocations of the handler meet
OverlapTables ==
  { << Row("u1", "daily",   T0 - 1,  FALSE) >>,
    << Row("u1", "none",    T0 - 2,  FALSE) >>,
    << Row("u2", "weekly",  T0 - 50, FALSE) >>,
    << Row("u1", "monthly", T0 - 1,  FALSE) >> }

InitOverlap ==
  /\ ClockInit
  /\ env = EnvAllSet
  /\ MAILER_URL = TRUE
  /\ \E rows \in OverlapTables :
       reminders = [k \in DOMAIN rows |-> [id |-> k] @@ rows[k]]
  /\ caregivers = { [patient_id |-> "u1", email |-> "cg@mail"],
                    [patient_id |-> "u2", email |-> "cg2@mail"] }
  /\ notifications = <<>>
  /\ mailLog = <<>>
  /\ frame = [i \in Invs |-> IdleFrame]
  /\ GoalIdle
  /\ EvalIdle

\* the handler is a stateless HTTP function: a second request may arrive
\* while the first is still between two of its awaits; the requests of one
\* scheduled instant
NextOverlap ==
  \E i \in Invs :
    \/ HandlerStart(i)
    \/ CaregiverLookup(i)
    \/ InsertNotification(i)
    \/ SendMail(i)
    \/ PatchNotification(i)
    \/ PatchReminder(i)

SpecOverlap == InitOverlap /\ [][NextOverlap]_vars

\* ------------------------------------------------------------ goal checker
\* a row of health_goals; user_id may be null
GoalRow(name, u, metric, value, period, active) ==
  [name |-> name, user_id |-> u, metric |-> metric, goal_value |-> value,
   period |-> period, active |-> active]

\* a row of health_data; a metric column may be null
Reading(u, at, w, st) == [user_id |-> u, timestamp |-> at, weight |-> w, steps |-> st]

GoalTables ==
  { << GoalRow("g1", Some("u1"), "weight", 80, "daily", TRUE),
       GoalRow("g2", Some("u1"), "steps", 5000, "weekly", TRUE) >>,
    << GoalRow("g1", Some("u1"), "steps", 3000, "null", TRUE),
       GoalRow("g2", Null, "steps", 100, "daily", TRUE),
       GoalRow("g3", Some("u2"), "weight", 70, "monthly", TRUE) >>,
    << GoalRow("g1", Some("u2"), "steps", 0, "daily", TRUE),
       GoalRow("g2", Some("u1"), "weight", 90, "weekly", FALSE),
       GoalRow("g3", Some("u1"), "steps", 9000, "monthly", TRUE) >> }

HealthTables ==
  { << Reading("u1", T0 - 100, Some(90), Some(4000)),
       Reading("u1", T0 - 30, Some(85), Some(2000)),
       Reading("u1", T0 - 5, Some(80), Some(3000)) >>,
    << Reading("u1", T0 - 30, Some(85), Some(5000)),
       Reading("u1", T0 - 5, Null, Null),
       Reading("u2", T0 - 3, Some(95), Null) >>,
    << >>,
    << Reading("u1", T0 - 5, Some(81), Some(2999)),
       Reading("u2", T0 - 4, Some(69), Some(1)) >> }

\* d.setHours(0,0,0,0)
setHours0(t) == t - getHours(t)

\* the week counted from Sunday: diff = day
startOfPeriod_weekFromSunday(period, t) ==
  IF period = "daily" THEN setHours0(t)
  ELSE IF period = "weekly"
  THEN setHours0(setDate(t, getDate(t) - getDay(t)))
  ELSE IF period = "monthly" THEN setHours0(setDate(t, 1))
  ELSE setHours0(t)

startOfPeriod(period, t) ==
  IF period = "daily" THEN setHours0(t)
  ELSE IF period = "weekly"
  THEN setHours0(setDate(t, getDate(t) - ((getDay(t) + 6) % 7)))
  ELSE IF period = "monthly" THEN setHours0(setDate(t, 1))
  ELSE setHours0(t)

\* health_goals?active=eq.true
ActiveGoals == SelectSeq(health_goals, LAMBDA g : g.active)

\* the loop of fetchMetricSum: sum += Number(v) for every non-null v
RECURSIVE SumMetric(_, _)
SumMetric(rows, metric) ==
  IF rows = <<>> THEN 0
  ELSE (IF Head(rows)[metric] # Null THEN Val(Head(rows)[metric]) ELSE 0)
       + SumMetric(Tail(rows), metric)

\* fetchMetricSum on a success response; Number(null) is 0
fetchMetricSum(userId, metric, periodStart) ==
  IF metric = "weight"
  THEN LET arr == SelectSeq(health_data, LAMBDA r : r.user_id = userId)
           latest == CHOOSE k \in DOMAIN arr :
                       \A j \in DOMAIN arr : arr[j].timestamp <= arr[k].timestamp
       IN IF arr = <<>> THEN Null
          ELSE Some(IF arr[latest].weight = Null THEN 0 ELSE Val(arr[latest].weight))
  ELSE Some(SumMetric(SelectSeq(health_data,
                        LAMBDA r : r.user_id = userId /\ r.timestamp >= periodStart),
                      metric))

\* the comparison with "or equal" on both sides
GoalMissed_orEqual(metric, metricValue, goalVal) ==
  IF metricValue = Null THEN TRUE
  ELSE IF metric = "weight" THEN Val(metricValue) >= goalVal
  ELSE Val(metricValue) <= goalVal

\* let missed: null counts as missed, weight above target, any other metric below
GoalMissed(metric, metricValue, goalVal) ==
  IF metricValue = Null THEN TRUE
  ELSE IF metric = "weight" THEN Val(metricValue) > goalVal
  ELSE Val(metricValue) < goalVal

\* an insert that skips a goal which already has a reminder
insertReminder_dedup(rows, user_id, title, t, run) ==
  IF \E k \in DOMAIN rows : rows[k].user_id = user_id /\ rows[k].title = title
  THEN rows
  ELSE Append(rows, [id |-> Len(rows) + 1, user_id |-> user_id, title |-> title,
                     notify_at |-> Some(t), channel |-> "in_app", delivered |-> FALSE,
                     created_at |-> t, run |-> run])

\* the reminders table after the POST of insertReminder's payload
insertReminder(rows, user_id, title, t, run) ==
  Append(rows, [id |-> Len(rows) + 1, user_id |-> user_id, title |-> title,
                notify_at |-> Some(t), channel |-> "in_app", delivered |-> FALSE,
                created_at |-> t, run |-> run])

\* process.exit(1)
Exit1(f) == [f EXCEPT !.pc = "exited", !.exitCode = Some(1)]

\* the for loop moves on: goals without user_id are skipped, after the last
\* goal the script ends and the process exits with code 0
NextGoal(f, k) ==
  LET rest == {j \in DOMAIN f.goals : j > k /\ f.goals[j].user_id # Null}
  IN IF rest = {}
     THEN [f EXCEPT !.pc = "exited", !.exitCode = Some(0), !.idx = Len(f.goals) + 1]
     ELSE [f EXCEPT !.pc = "metric", !.idx = CHOOSE j \in rest : \A m \in rest : j <= m]

\* script start: the environment check, then fetchActiveGoals
CheckerStart ==
  /\ ~CheckerRunning
  /\ runs < MaxRuns
  /\ runs' = runs + 1
  /\ LET f0 == [IdleChecker EXCEPT !.run = runs + 1]
     IN IF ~env.SUPABASE_URL \/ ~env.SERVICE_KEY
        THEN /\ checker' = Exit1(f0)
             /\ faults' = faults
             /\ storeReqs' = 0
        ELSE \E o \in Outcomes :
               /\ Charge(o)
               /\ storeReqs' = 1
               /\ checker' =
                    IF o = "throw" THEN Exit1([f0 EXCEPT !.fetch = o])
                    ELSE LET goals == IF o = "ok" THEN ActiveGoals ELSE <<>>
                         IN NextGoal([f0 EXCEPT !.fetch = o, !.goals = goals,
                                                !.log = [k \in DOMAIN goals |-> NoGoalLog]], 0)
  /\ UNCHANGED <<now, ticks, MAILER_URL, reminders, caregivers, notifications, mailLog,
                 frame, env, health_goals, health_data, evalVars>>

\* one goal: startOfPeriod, fetchMetricSum, then the missed decision
FetchMetric ==
  LET f == checker
      g == f.goals[f.idx]
      period == IF g.period = "null" THEN "daily" ELSE g.period
      periodStart == startOfPeriod(period, now)
  IN /\ f.pc = "metric"
     /\ \E o \in Outcomes :
          /\ Charge(o)
          /\ storeReqs' = storeReqs + 1
          /\ LET metricValue == IF o = "ok"
                                THEN fetchMetricSum(Val(g.user_id), g.metric, periodStart)
                                ELSE Null
                 missed == GoalMissed(g.metric, metricValue, g.goal_value)
                 f1 == [f EXCEPT !.log[f.idx] =
                          [at |-> now, periodStart |-> periodStart, metric |-> o,
                           value |-> metricValue, missed |-> missed, ins |-> "none"]]
             IN checker' = IF o = "throw" THEN Exit1([f EXCEPT !.log[f.idx].metric = o])
                           ELSE IF missed THEN [f1 EXCEPT !.pc = "insert"]
                           ELSE NextGoal(f1, f.idx)
     /\ UNCHANGED <<now, ticks, runs, MAILER_URL, reminders, caregivers, notifications,
                    mailLog, frame, env, health_goals, health_data, evalVars>>

\* insertReminder(userId, "Goal missed: <name>", body, now)
InsertReminder ==
  LET f == checker
      g == f.goals[f.idx]
  IN /\ f.pc = "insert"
     /\ \E o \in Outcomes :
          /\ Charge(o)
          /\ storeReqs' = storeReqs + 1
          /\ reminders' = IF o = "ok"
                          THEN insertReminder(reminders, Val(g.user_id), g.name, now, f.run)
                          ELSE reminders
          /\ checker' = IF o = "throw" THEN Exit1([f EXCEPT !.log[f.idx].ins = o])
                        ELSE NextGoal([f EXCEPT !.log[f.idx].ins = o], f.idx)
     /\ UNCHANGED <<now, ticks, runs, MAILER_URL, caregivers, notifications, mailLog,
                    frame, env, health_goals, health_data, evalVars>>

InitGoal ==
  /\ ClockInit
  /\ env \in [SUPABASE_URL : BOOLEAN, SUPABASE_KEY : {TRUE}, SERVICE_KEY : BOOLEAN]
  /\ DispatcherIdle
  /\ health_goals \in GoalTables
  /\ health_data \in HealthTables
  /\ checker = IdleChecker
  /\ EvalIdle

NextGoalChecker ==
  \/ CheckerStart
  \/ FetchMetric
  \/ InsertReminder
  \/ Tick

SpecGoal == InitGoal /\ [][NextGoalChecker]_vars

\* instants at which the goal checker is started: a Wednesday at the end of a
\* month, a Sunday night, a Monday at midnight, a Monday that opens a year,
\* a Friday that opens a month, a Sunday that closes a year, a leap day
PeriodInstants ==
  { T0,
    MakeTime(2024, 1, 4, 23),
    MakeTime(2024, 1, 5, 0),
    MakeTime(2024, 0, 1, 5),
    MakeTime(2024, 2, 1, 0),
    MakeTime(2023, 11, 31, 12),
    MakeTime(2024, 1, 29, 13) }

\* one goal for each period the checker knows, and one without period
PeriodGoals ==
  << GoalRow("g1", Some("u1"), "steps", 3000, "daily", TRUE),
     GoalRow("g2", Some("u1"), "steps", 5000, "weekly", TRUE),
     GoalRow("g3", Some("u1"), "weight", 80, "monthly", TRUE),
     GoalRow("g4", Some("u2"), "steps", 1, "null", TRUE) >>

InitPeriod ==
  /\ now \in PeriodInstants
  /\ ticks = 0
  /\ runs = 0
  /\ faults = 0
  /\ storeReqs = 0
  /\ env = EnvAllSet
  /\ DispatcherIdle
  /\ health_goals = PeriodGoals
  /\ health_data \in HealthTables
  /\ checker = IdleChecker
  /\ EvalIdle

SpecPeriod == InitPeriod /\ [][NextGoalChecker]_vars

\* --------------------------------------------------- risk evaluator (agent)
\* JavaScript values of a snapshot field
Undef == [t |-> "undef", v |-> 0]
JNull == [t |-> "null", v |-> 0]
Num(n) == [t |-> "num", v |-> n]
NumStr(n) == [t |-> "numstr", v |-> n]
NaNStr == [t |-> "str", v |-> 0]

\* free text: the search keywords a string (or the strings of an array) contains
NoText == [t |-> "undef", kw |-> {}]
NullText == [t |-> "null", kw |-> {}]
Str(kw) == [t |-> "str", kw |-> kw]
Arr(kw) == [t |-> "arr", kw |-> kw]
NumText == [t |-> "num", kw |-> {}]

\* row?.field
Field(row, name) == IF row.kind = "object" THEN row[name] ELSE Undef
TextField(row, name) == IF row.kind = "object" THEN row[name] ELSE NoText

\* Number(x ?? 0) || 0
NumOr0(x) == IF x.t \in {"num", "numstr"} THEN x.v ELSE 0

\* Math.min written as Math.max
MathMin_asMax(a, b) == IF a >= b THEN a ELSE b

MathMin(a, b) == IF a <= b THEN a ELSE b
MathMax(a, b) == IF a >= b THEN a ELSE b

\* the age the try block reads from localStorage "user"; 0 when the access or
\* JSON.parse throws, the item is missing or holds no age
StoredAge(ls) == IF ls.t = "user" THEN ls.age ELSE 0

Includes(text, words) == text \cap words # {}

computeRisks(row, ls) ==
  LET hr == NumOr0(Field(row, "heart_rate"))
      sbp == NumOr0(Field(row, "systolic_bp"))
      dbp == NumOr0(Field(row, "diastolic_bp"))
      sugar == NumOr0(Field(row, "blood_sugar"))
      weight == NumOr0(Field(row, "weight"))
      sleepHours == NumOr0(Field(row, "sleep_hours"))
      age0 == NumOr0(Field(row, "age"))
      age == IF age0 = 0 /\ StoredAge(ls) # 0 THEN StoredAge(ls) ELSE age0
      symptomsRaw ==
        IF TextField(row, "symptoms").t \notin {"undef", "null"} THEN TextField(row, "symptoms")
        ELSE IF TextField(row, "notes").t \notin {"undef", "null"} THEN TextField(row, "notes")
        ELSE Str({})
      symptoms == IF symptomsRaw.t \in {"str", "arr"} THEN symptomsRaw.kw ELSE {}
      diabetes ==
        IF sugar >= 200 THEN 96 ELSE IF sugar >= 160 THEN 85 ELSE IF sugar >= 140 THEN 70
        ELSE IF sugar >= 110 THEN 35 ELSE IF sugar > 100 THEN 12 ELSE 5
      hypertension ==
        IF sbp >= 180 \/ dbp >= 120 THEN 98 ELSE IF sbp >= 160 \/ dbp >= 100 THEN 88
        ELSE IF sbp >= 140 \/ dbp >= 90 THEN 65 ELSE IF sbp >= 130 \/ dbp >= 80 THEN 32 ELSE 8
      heartScore ==
        (IF hr # 0 /\ (hr < 50 \/ hr > 100) THEN 18 ELSE 0)
        + (IF hypertension >= 65 THEN 26 ELSE 0)
        + (IF weight # 0 /\ weight > 90 THEN 12 ELSE 0)
        + (IF age # 0 /\ age > 60 THEN 16 ELSE 0)
        + (IF Includes(symptoms, {"chest", "palpit", "irregular"}) THEN 20 ELSE 0)
      strokeScore ==
        (IF hypertension >= 85 THEN 52 ELSE 0)
        + (IF age > 65 THEN 22 ELSE 0)
        + (IF diabetes >= 70 THEN 14 ELSE 0)
        + (IF Includes(symptoms, {"numb", "weak", "slurred"}) THEN 18 ELSE 0)
      alz ==
        (IF age >= 80 THEN 42 ELSE IF age >= 70 THEN 28 ELSE IF age >= 60 THEN 12 ELSE 0)
        + (IF Includes(symptoms, {"confusion", "memory", "forget"}) THEN 30 ELSE 0)
      copd ==
        (IF Includes(symptoms, {"shortness", "breath", "cough"}) THEN 35 ELSE 0)
        + (IF Includes(symptoms, {"wheeze"}) THEN 25 ELSE 0)
      kidney ==
        (IF hypertension >= 70 THEN 30 ELSE 0)
        + (IF diabetes >= 60 THEN 34 ELSE 0)
        + (IF age > 60 THEN 12 ELSE 0)
        + (IF Includes(symptoms, {"swelling", "edema", "urine"}) THEN 22 ELSE 0)
      obesity0 ==
        IF weight > 110 THEN 88 ELSE IF weight > 100 THEN 72 ELSE IF weight > 85 THEN 46
        ELSE IF weight > 70 THEN 22 ELSE 8
      obesity ==
        IF sleepHours # 0 /\ (sleepHours < 4 \/ sleepHours > 10)
        THEN MathMin(95, obesity0 + 4) ELSE obesity0
      raw == [diabetes |-> diabetes,
              hypertension |-> hypertension,
              heartDisease |-> MathMin(99, MathMax(4, heartScore)),
              stroke |-> MathMin(99, strokeScore),
              alzheimer |-> MathMin(95, alz),
              copd |-> MathMin(95, copd),
              kidneyDisease |-> MathMin(95, kidney),
              obesity |-> obesity]
  IN \* final normalization (clamp 0..100)
     [k \in DOMAIN raw |-> MathMax(0, MathMin(100, raw[k]))]

\* snapshots the evaluator is called with
Snapshots ==
  { [kind |-> "null"], [kind |-> "undefined"] } \cup
  [ kind : {"object"},
    heart_rate : {Undef, Num(120)},
    systolic_bp : {JNull, Num(130), NumStr(160), Num(180)},
    diastolic_bp : {Undef, Num(90)},
    blood_sugar : {Undef, Num(0 - 5), Num(101), Num(160), Num(200), NaNStr},
    weight : {JNull, Num(91), Num(111)},
    sleep_hours : {Undef, Num(3)},
    age : {Undef, Num(61), Num(70), NumStr(80)},
    symptoms : {NoText, Str({"chest", "breath", "wheeze", "numb"}),
                Arr({"memory", "swelling"}), NumText},
    notes : {NullText, Str({"slurred", "urine", "forget", "irregular", "cough"})} ]

LocalStorages ==
  { [t |-> "unavailable", age |-> 0], [t |-> "absent", age |-> 0],
    [t |-> "garbage", age |-> 0], [t |-> "user", age |-> 82] }

\* no job runs while the browser side is exercised
BatchIdle ==
  /\ ClockInit
  /\ env = EnvAllSet
  /\ DispatcherIdle
  /\ GoalIdle

InitEval ==
  /\ BatchIdle
  /\ FormIdle
  /\ localStorage \in LocalStorages
  /\ vitals \in Snapshots
  /\ profile = [kind |-> "undefined"]
  /\ risks = Null
  /\ risks2 = Null
  /\ basicRisk = NoBasicRisk
  /\ alert = Null

\* a caller evaluates the snapshot
ComputeRisks ==
  /\ risks = Null
  /\ risks' = Some(computeRisks(vitals, localStorage))
  /\ UNCHANGED <<localStorage, vitals, profile, risks2, basicRisk, alert>>
  /\ UNCHANGED <<batchVars, formVars>>

NextEval == ComputeRisks

SpecEval == InitEval /\ [][NextEval]_vars

\* ------------------------------------------------- two calls, one snapshot
\* the record Login stores under "user": email and userType, no age
LoginRecord == [t |-> "user", age |-> 0]

\* snapshots for the repeated call: the fields the age does not meet are fixed
PureSnapshots ==
  {s \in Snapshots :
     s.kind = "object" =>
       /\ s.heart_rate = Undef /\ s.diastolic_bp = Undef /\ s.sleep_hours = Undef
       /\ s.weight # Num(111) /\ s.notes = NullText}

InitPure ==
  /\ BatchIdle
  /\ FormIdle
  /\ localStorage \in LocalStorages \cup {LoginRecord}
  /\ vitals \in PureSnapshots
  /\ profile = [kind |-> "undefined"]
  /\ risks = Null
  /\ risks2 = Null
  /\ basicRisk = NoBasicRisk
  /\ alert = Null

\* Login: localStorage.setItem("user", { email, userType })
Login ==
  /\ risks # Null /\ risks2 = Null
  /\ localStorage # LoginRecord
  /\ localStorage' = LoginRecord
  /\ UNCHANGED <<vitals, profile, risks, risks2, basicRisk, alert>>
  /\ UNCHANGED <<batchVars, formVars>>

\* handleLogout: localStorage.removeItem("user")
Logout ==
  /\ risks # Null /\ risks2 = Null
  /\ localStorage.t \notin {"absent", "unavailable"}
  /\ localStorage' = [t |-> "absent", age |-> 0]
  /\ UNCHANGED <<vitals, profile, risks, risks2, basicRisk, alert>>
  /\ UNCHANGED <<batchVars, formVars>>

\* a later caller evaluates the same snapshot again
ComputeRisksAgain ==
  /\ risks # Null /\ risks2 = Null
  /\ risks2' = Some(computeRisks(vitals, localStorage))
  /\ UNCHANGED <<localStorage, vitals, profile, risks, basicRisk, alert>>
  /\ UNCHANGED <<batchVars, formVars>>

NextPure == ComputeRisks \/ Login \/ Logout \/ ComputeRisksAgain

SpecPure == InitPure /\ [][NextPure]_vars

\* ------------------------------------------- basic diabetes scorers (num)
NaN == [t |-> "nan", v |-> 0]

\* num(v): null and undefined stay null, everything else goes through Number
num(x) ==
  IF x.t \in {"undef", "null"} THEN JNull
  ELSE IF x.t \in {"num", "numstr"} THEN Num(x.v) ELSE NaN

\* x >= n on a value num returned; false on NaN
Ge(x, n) == x.t = "num" /\ x.v >= n

\* truthiness of a JavaScript value: 0, NaN, null and undefined are falsy,
\* every non-empty string is truthy
Truthy(x) == (x.t = "num" /\ x.v # 0) \/ x.t \in {"numstr", "str"}

\* the glucose bands shared by the three scorers
SugarScore(sugar, type) ==
  IF type = "fasting"
  THEN IF Ge(sugar, 126) THEN 95 ELSE IF Ge(sugar, 100) THEN 70
       ELSE IF Ge(sugar, 90) THEN 30 ELSE 10
  ELSE IF Ge(sugar, 200) THEN 95 ELSE IF Ge(sugar, 140) THEN 70
       ELSE IF Ge(sugar, 120) THEN 40 ELSE 10

\* api/agent-process: computeDiabetesRisk(entry)
computeDiabetesRisk(entry) ==
  IF entry.kind # "object" THEN 10
  ELSE LET sugar == num(entry.blood_sugar)
       IN IF sugar.t = "null" THEN 10
          ELSE IF entry.blood_sugar_type = "fasting"
          THEN IF Ge(sugar, 126) THEN 95 ELSE IF Ge(sugar, 100) THEN 70
               ELSE IF Ge(sugar, 90) THEN 30 ELSE 10
          ELSE IF Ge(sugar, 200) THEN 95 ELSE IF Ge(sugar, 140) THEN 70
               ELSE IF Ge(sugar, 120) THEN 40 ELSE 10

\* AddData: computeDiabetesRiskFromEntry(entry, profile)
computeDiabetesRiskFromEntry(entry, prof) ==
  IF entry.kind # "object" THEN 10
  ELSE LET sugar == num(entry.blood_sugar)
           score0 == SugarScore(sugar, entry.blood_sugar_type)
           weight == num(entry.weight)
           score1 == IF Truthy(weight) /\ Ge(weight, 200) THEN MathMin(100, score0 + 8)
                     ELSE IF Truthy(weight) /\ Ge(weight, 180) THEN MathMin(100, score0 + 5)
                     ELSE score0
           age == IF prof.kind = "object" /\ Truthy(prof.age) THEN num(prof.age) ELSE JNull
           score2 == IF Truthy(age) /\ Ge(age, 65) THEN MathMin(100, score1 + 5)
                     ELSE IF Truthy(age) /\ Ge(age, 50) THEN MathMin(100, score1 + 3)
                     ELSE score1
       IN IF sugar.t = "null" THEN 10 ELSE score2

\* Dashboard: computeDiabetesRisk(entry, profile), the same text as AddData's
DashboardDiabetesRisk(entry, prof) ==
  IF entry.kind # "object" THEN 10
  ELSE LET sugar == num(entry.blood_sugar)
           score0 == SugarScore(sugar, entry.blood_sugar_type)
           weight == num(entry.weight)
           score1 == IF Truthy(weight) /\ Ge(weight, 200) THEN MathMin(100, score0 + 8)
                     ELSE IF Truthy(weight) /\ Ge(weight, 180) THEN MathMin(100, score0 + 5)
                     ELSE score0
           age == IF prof.kind = "object" /\ Truthy(prof.age) THEN num(prof.age) ELSE JNull
           score2 == IF Truthy(age) /\ Ge(age, 65) THEN MathMin(100, score1 + 5)
                     ELSE IF Truthy(age) /\ Ge(age, 50) THEN MathMin(100, score1 + 3)
                     ELSE score1
       IN IF sugar.t = "null" THEN 10 ELSE score2

\* readings and profiles the scorers are called with
BasicEntries ==
  { [kind |-> "null"] } \cup
  [ kind : {"object"},
    blood_sugar : {Undef, JNull, Num(89), Num(100), Num(126), Num(140), Num(199),
                   Num(200), NumStr(200), Num(250), NaNStr},
    blood_sugar_type : {"fasting", "random", "null"},
    weight : {Undef, Num(0), Num(179), Num(180), Num(200), NaNStr} ]

Profiles ==
  { [kind |-> "undefined"] } \cup
  [ kind : {"object"}, age : {Undef, Num(0), Num(49), Num(50), Num(65), NumStr(70), NaNStr} ]

InitBasic ==
  /\ BatchIdle
  /\ FormIdle
  /\ localStorage = [t |-> "absent", age |-> 0]
  /\ vitals \in BasicEntries
  /\ profile \in Profiles
  /\ risks = Null
  /\ risks2 = Null
  /\ basicRisk = NoBasicRisk
  /\ alert = Null

\* agent-process handler: risks = { diabetes: computeDiabetesRisk(latest) }
AgentProcess ==
  /\ basicRisk.agent = Null
  /\ basicRisk' = [basicRisk EXCEPT !.agent = Some(computeDiabetesRisk(vitals))]
  /\ UNCHANGED <<localStorage, vitals, profile, risks, risks2, alert>>
  /\ UNCHANGED <<batchVars, formVars>>

\* Dashboard: diabetesRisk = computeDiabetesRisk(latest, profile)
DashboardScore ==
  /\ basicRisk.dashboard = Null
  /\ basicRisk' = [basicRisk EXCEPT !.dashboard = Some(DashboardDiabetesRisk(vitals, profile))]
  /\ UNCHANGED <<localStorage, vitals, profile, risks, risks2, alert>>
  /\ UNCHANGED <<batchVars, formVars>>

\* AddData: diabetes = computeDiabetesRiskFromEntry(insertedEntry, profileObj)
AddDataScore ==
  /\ basicRisk.addData = Null
  /\ basicRisk' = [basicRisk EXCEPT !.addData = Some(computeDiabetesRiskFromEntry(vitals, profile))]
  /\ UNCHANGED <<localStorage, vitals, profile, risks, risks2, alert>>
  /\ UNCHANGED <<batchVars, formVars>>

NextBasic == AgentProcess \/ DashboardScore \/ AddDataScore

SpecBasic == InitBasic /\ [][NextBasic]_vars

\* ---------------------------------------------------------- alert predicate
\* risks.<key> ?? 0
RiskEntry(m, key) == IF key \in DOMAIN m THEN m[key] ELSE 0

\* the alert predicate with strict comparisons
shouldAlert_strict(r) ==
  IF r = Null THEN FALSE
  ELSE \/ RiskEntry(Val(r), "diabetes") > 80
       \/ RiskEntry(Val(r), "hypertension") > 90
       \/ RiskEntry(Val(r), "heartDisease") > 85

shouldAlert(r) ==
  IF r = Null THEN FALSE
  ELSE \/ RiskEntry(Val(r), "diabetes") >= 80
       \/ RiskEntry(Val(r), "hypertension") >= 90
       \/ RiskEntry(Val(r), "heartDisease") >= 85

AlertKeys == {"diabetes", "hypertension", "heartDisease"}
AlertLevels == {0, 79, 80, 84, 85, 89, 90}

\* mappings handed to shouldAlert: none, or one with any subset of the entries
AlertInputs ==
  {Null} \cup {Some(m) : m \in UNION {[S -> AlertLevels] : S \in SUBSET AlertKeys}}

InitAlert ==
  /\ BatchIdle
  /\ FormIdle
  /\ localStorage = [t |-> "absent", age |-> 0]
  /\ vitals = [kind |-> "undefined"]
  /\ profile = [kind |-> "undefined"]
  /\ risks \in AlertInputs
  /\ risks2 = Null
  /\ basicRisk = NoBasicRisk
  /\ alert = Null

\* a caller asks whether the mapping warrants an alert
ShouldAlert ==
  /\ alert = Null
  /\ alert' = Some(shouldAlert(risks))
  /\ UNCHANGED <<localStorage, vitals, profile, risks, risks2, basicRisk>>
  /\ UNCHANGED <<batchVars, formVars>>

NextAlert == ShouldAlert

SpecAlert == InitAlert /\ [][NextAlert]_vars

\* ------------------------------------------------------------------- forms
\* calls of supabase-js resolve with { data, error } and never reject
StoreOutcomes == Outcomes \ {"throw"}

\* the row handleSubmit builds: every number is Number(x) or null, the page
\* has no age field
FormRow(sbp, sugar) ==
  [kind |-> "object", heart_rate |-> JNull, systolic_bp |-> sbp, diastolic_bp |-> JNull,
   blood_sugar |-> sugar, weight |-> JNull, sleep_hours |-> JNull, age |-> Undef,
   symptoms |-> NullText, notes |-> NullText]

\* what the user typed into the vitals page
FormRows ==
  { FormRow(JNull, JNull), FormRow(JNull, Num(200)), FormRow(JNull, Num(140)),
    FormRow(Num(180), JNull) }

\* the symptom page: the ticked symptoms and the severity picked for each,
\* "" where none was picked
SymptomInputs ==
  { [selected |-> {}, severity |-> [s \in {"fever", "cough"} |-> ""]],
    [selected |-> {"fever"}, severity |-> [s \in {"fever", "cough"} |-> ""]],
    [selected |-> {"fever", "cough"},
     severity |-> [s \in {"fever", "cough"} |-> IF s = "cough" THEN "severe" ELSE "moderate"]],
    [selected |-> {"fever"},
     severity |-> [s \in {"fever", "cough"} |-> IF s = "cough" THEN "severe" ELSE "mild"]] }

\* the caregivers table as the forms read it; u2 has no caregiver
FormCaregiverTables ==
  { { [user_id |-> "u1", patient_id |-> "u1", caregiver_user_id |-> "u2",
       email |-> "cg@mail", phone |-> ""] },
    { [user_id |-> "u1", patient_id |-> "u1", caregiver_user_id |-> "null",
       email |-> "", phone |-> "+91"] } }

\* the email of the auth user and of the profiles row; u2 signed up by phone
AuthEmail(u) == IF u = "u1" THEN "u1@mail" ELSE "null"
ProfileEmail(u) == IF u = "u1" THEN "u1@mail" ELSE "null"

\* local?.email of the localStorage item "user"
StoredEmail(ls) == IF ls.t = "user" THEN "me@mail" ELSE "null"

\* what the form pages leave alone
formFixed ==
  <<now, ticks, MAILER_URL, caregivers, mailLog, frame, env, storeReqs, health_goals,
    checker, localStorage, profile, risks2, basicRisk, session>>

FormBusy == form.pc \notin {"idle", "done", "failed", "rejected"}

\* the outer catch of a form handler: toast "Save failed" / "Error"
FormFailed(f) == [f EXCEPT !.pc = "failed"]

\* an insight recorder that overwrites the owner's previous insight
createInsightForUser_upsert(rows, userId, title, t, run, o) ==
  LET payload == [user_id |-> userId, title |-> title, source |-> "client",
                  created_at |-> t, run |-> run]
      mine == {k \in DOMAIN rows : rows[k].user_id = userId}
  IN [rows |-> IF o # "ok" THEN rows
               ELSE IF mine = {} THEN Append(rows, payload)
               ELSE [rows EXCEPT ![CHOOSE k \in mine : TRUE] = payload],
      error |-> o # "ok"]

\* createInsightForUser: one insert into health_insights; the store's error
\* and a raised exception both come back as { error }
createInsightForUser(rows, userId, title, t, run, o) ==
  LET payload == [user_id |-> userId, title |-> title, source |-> "client",
                  created_at |-> t, run |-> run]
  IN [rows |-> IF o = "ok" THEN Append(rows, payload) ELSE rows,
      error |-> o # "ok"]

\* moderate: any of the three risks at 50 or more
Moderate(r) ==
  \/ RiskEntry(Val(r), "diabetes") >= 50
  \/ RiskEntry(Val(r), "hypertension") >= 50
  \/ RiskEntry(Val(r), "heartDisease") >= 50

\* the follow-up step awaits the store only for a moderate reading
ToFollowUp(f) == IF f.moderate THEN [f EXCEPT !.pc = "followUp"] ELSE [f EXCEPT !.pc = "done"]

\* the for loop over carers: the next carer, or on to the follow-up
NextCarer(f) ==
  IF f.carers = {}
  THEN ToFollowUp([f EXCEPT !.idx = 0])
  ELSE [f EXCEPT !.pc = "carerNotification", !.idx = f.idx + 1,
                 !.carer = CHOOSE c \in f.carers : TRUE,
                 !.carers = f.carers \ {CHOOSE c \in f.carers : TRUE}]

\* after the carer's in-app notification: email, then sms, then the next carer
AfterCarerNotification(f) ==
  IF f.carer.email # "" THEN [f EXCEPT !.pc = "carerEmail"]
  ELSE IF f.carer.phone # "" THEN [f EXCEPT !.pc = "carerSms"]
  ELSE NextCarer(f)

AfterCarerEmail(f) ==
  IF f.carer.phone # "" THEN [f EXCEPT !.pc = "carerSms"] ELSE NextCarer(f)

\* vitals page, handleSubmit: supabase.auth.getUser(), then the row is built
SubmitVitals ==
  /\ ~FormBusy
  /\ runs < MaxRuns
  /\ runs' = runs + 1
  /\ \E row \in FormRows, o \in StoreOutcomes :
       /\ Charge(o)
       /\ vitals' = row
       /\ form' = IF o = "ok" /\ session # "null"
                  THEN [IdleForm EXCEPT !.kind = "vitals", !.run = runs + 1,
                                        !.userId = session, !.pc = "insert"]
                  ELSE FormFailed([IdleForm EXCEPT !.kind = "vitals", !.run = runs + 1])
  /\ risks' = Null
  /\ alert' = Null
  /\ UNCHANGED formFixed
  /\ UNCHANGED <<reminders, notifications, health_data, insights, symptomsTable, notifyLog>>

\* insert into health_data; an error is thrown to the outer catch, otherwise
\* the risks are computed from the row
InsertHealthData ==
  /\ form.kind = "vitals" /\ form.pc = "insert"
  /\ \E o \in StoreOutcomes :
       /\ Charge(o)
       /\ health_data' = IF o = "ok"
                         THEN Append(health_data, [user_id |-> form.userId, at |-> now,
                                                   run |-> form.run])
                         ELSE health_data
       /\ risks' = IF o = "ok" THEN Some(computeRisks(vitals, localStorage)) ELSE risks
       /\ form' = IF o = "ok"
                  THEN [form EXCEPT !.primary = o, !.pc = "insight"]
                  ELSE FormFailed([form EXCEPT !.primary = o])
  /\ UNCHANGED formFixed
  /\ UNCHANGED <<runs, vitals, alert, reminders, notifications, insights, symptomsTable, notifyLog>>

\* the caller of createInsightForUser ignores what it returns
AfterInsight(f, res) ==
  [f EXCEPT !.insight = IF res.error THEN "fail" ELSE "ok", !.pc = "notification"]

\* await agentLib.createInsightForUser(userId, insightTitle, insightBody, ...)
CreateInsight ==
  /\ form.kind = "vitals" /\ form.pc = "insight"
  /\ \E o \in Outcomes :
       LET res == createInsightForUser(insights, form.userId, "Health reading recorded",
                                       now, form.run, o)
       IN /\ Charge(o)
          /\ insights' = res.rows
          /\ form' = AfterInsight(form, res)
  /\ UNCHANGED formFixed
  /\ UNCHANGED <<runs, vitals, risks, alert, reminders, notifications, health_data,
                 symptomsTable, notifyLog>>

\* a notification row as the forms insert it
FormNotification(u, level, related, run) ==
  [user_id |-> u, level |-> level, channel |-> "in-app", related_user_id |-> related,
   run |-> run]

\* urgent = agentLib.shouldAlert(risks); the escalation block runs if (urgent)
AfterPatientNotification(f, r) ==
  IF shouldAlert(r)
  THEN [f EXCEPT !.urgent = TRUE, !.moderate = Moderate(r), !.pc = "urgentNotification"]
  ELSE ToFollowUp([f EXCEPT !.urgent = FALSE, !.moderate = Moderate(r)])

\* the in-app notification for the patient, level info
InsertPatientNotification ==
  /\ form.kind = "vitals" /\ form.pc = "notification"
  /\ \E o \in StoreOutcomes :
       /\ Charge(o)
       /\ notifications' = IF o = "ok"
                           THEN Append(notifications,
                                       FormNotification(form.userId, "info", "null", form.run))
                           ELSE notifications
       /\ form' = AfterPatientNotification([form EXCEPT !.notif = o], risks)
  /\ alert' = Some(shouldAlert(risks))
  /\ UNCHANGED formFixed
  /\ UNCHANGED <<runs, vitals, risks, reminders, health_data, insights, symptomsTable, notifyLog>>

\* the in-app notification for the patient, level urgent
InsertUrgentNotification ==
  /\ form.kind = "vitals" /\ form.pc = "urgentNotification"
  /\ \E o \in StoreOutcomes :
       /\ Charge(o)
       /\ notifications' = IF o = "ok"
                           THEN Append(notifications,
                                       FormNotification(form.userId, "urgent", "null", form.run))
                           ELSE notifications
       /\ form' = [form EXCEPT !.pc = "patientEmail"]
  /\ UNCHANGED formFixed
  /\ UNCHANGED <<runs, vitals, risks, alert, reminders, health_data, insights, symptomsTable,
                 notifyLog>>

\* profiles.email, with the auth user's email as the fallback
LookupPatientEmail ==
  /\ form.kind = "vitals" /\ form.pc = "patientEmail"
  /\ \E o \in StoreOutcomes :
       LET email == IF o = "ok" /\ ProfileEmail(form.userId) # "null"
                    THEN ProfileEmail(form.userId) ELSE AuthEmail(form.userId)
       IN /\ Charge(o)
          /\ form' = [form EXCEPT !.patientEmail = email,
                                  !.pc = IF email # "null" THEN "notifyPatient" ELSE "carers"]
  /\ UNCHANGED formFixed
  /\ UNCHANGED <<runs, vitals, risks, alert, reminders, notifications, health_data, insights,
                 symptomsTable, notifyLog>>

\* one POST to /api/notify
NotifyCall(f, to, channel, o) ==
  [run |-> f.run, form |-> f.kind, to |-> to, channel |-> channel, outcome |-> o]

\* fetch("/api/notify") for the patient, inside its own try/catch
NotifyPatient ==
  /\ form.kind = "vitals" /\ form.pc = "notifyPatient"
  /\ \E o \in Outcomes :
       /\ Charge(o)
       /\ notifyLog' = Append(notifyLog, NotifyCall(form, form.patientEmail, "email", o))
       /\ form' = [form EXCEPT !.pc = "carers"]
  /\ UNCHANGED formFixed
  /\ UNCHANGED <<runs, vitals, risks, alert, reminders, notifications, health_data, insights,
                 symptomsTable>>

\* caregivers where user_id = userId
LookupCarers ==
  /\ form.kind = "vitals" /\ form.pc = "carers"
  /\ \E o \in StoreOutcomes :
       /\ Charge(o)
       /\ form' = NextCarer([form EXCEPT !.carers =
                    IF o = "ok" THEN {c \in caregivers : c.user_id = form.userId} ELSE {}])
  /\ UNCHANGED formFixed
  /\ UNCHANGED <<runs, vitals, risks, alert, reminders, notifications, health_data, insights,
                 symptomsTable, notifyLog>>

\* the carer's in-app notification: user_id is c.caregiver_user_id ?? null
InsertCarerNotification ==
  /\ form.kind = "vitals" /\ form.pc = "carerNotification"
  /\ \E o \in StoreOutcomes :
       /\ Charge(o)
       /\ notifications' = IF o = "ok"
                           THEN Append(notifications,
                                       FormNotification(form.carer.caregiver_user_id, "urgent",
                                                        form.userId, form.run))
                           ELSE notifications
       /\ form' = AfterCarerNotification(form)
  /\ UNCHANGED formFixed
  /\ UNCHANGED <<runs, vitals, risks, alert, reminders, health_data, insights, symptomsTable,
                 notifyLog>>

\* fetch("/api/notify") with the carer's email, inside its own try/catch
NotifyCarerEmail ==
  /\ form.kind = "vitals" /\ form.pc = "carerEmail"
  /\ \E o \in Outcomes :
       /\ Charge(o)
       /\ notifyLog' = Append(notifyLog, NotifyCall(form, form.carer.email, "email", o))
       /\ form' = AfterCarerEmail(form)
  /\ UNCHANGED formFixed
  /\ UNCHANGED <<runs, vitals, risks, alert, reminders, notifications, health_data, insights,
                 symptomsTable>>

\* fetch("/api/notify") with the carer's phone, inside its own try/catch
NotifyCarerSms ==
  /\ form.kind = "vitals" /\ form.pc = "carerSms"
  /\ \E o \in Outcomes :
       /\ Charge(o)
       /\ notifyLog' = Append(notifyLog, NotifyCall(form, form.carer.phone, "sms", o))
       /\ form' = NextCarer(form)
  /\ UNCHANGED formFixed
  /\ UNCHANGED <<runs, vitals, risks, alert, reminders, notifications, health_data, insights,
                 symptomsTable>>

\* the follow-up reminder of a moderate reading, three days on
ScheduleFollowUp ==
  /\ form.kind = "vitals" /\ form.pc = "followUp"
  /\ \E o \in StoreOutcomes :
       /\ Charge(o)
       /\ reminders' = IF o = "ok"
                       THEN Append(reminders,
                              [id |-> Len(reminders) + 1, user_id |-> form.userId,
                               title |-> "Follow-up",
                               scheduled_at |-> Some(setDate(now, getDate(now) + 3)),
                               run |-> form.run])
                       ELSE reminders
       /\ form' = [form EXCEPT !.followUp = o, !.pc = "done"]
  /\ UNCHANGED formFixed
  /\ UNCHANGED <<runs, vitals, risks, alert, notifications, health_data, insights,
                 symptomsTable, notifyLog>>

\* every ticked symptom counted as severe when no severity was picked
symptomsData_unsetIsSevere(input) ==
  {[id |-> s, severity |-> IF input.severity[s] = "" THEN "severe" ELSE input.severity[s]] :
     s \in input.selected}

\* selectedSymptoms.map(id => ({ id, label, severity: severity[id] || "mild" }))
symptomsData(input) ==
  {[id |-> s, severity |-> IF input.severity[s] = "" THEN "mild" ELSE input.severity[s]] :
     s \in input.selected}

\* symptom page, handleSubmit: getUserId(), then the row is built
SubmitSymptoms ==
  /\ ~FormBusy
  /\ runs < MaxRuns
  /\ runs' = runs + 1
  /\ \E input \in SymptomInputs :
       form' = IF session # "null"
               THEN [IdleForm EXCEPT !.kind = "symptoms", !.run = runs + 1, !.input = input,
                                     !.userId = session, !.pc = "insertSymptoms"]
               ELSE [IdleForm EXCEPT !.kind = "symptoms", !.run = runs + 1, !.input = input,
                                     !.pc = "rejected"]
  /\ UNCHANGED formFixed
  /\ UNCHANGED <<faults, vitals, risks, alert, reminders, notifications, health_data, insights,
                 symptomsTable, notifyLog>>

\* insert into symptoms; an error is thrown to the outer catch
InsertSymptoms ==
  /\ form.kind = "symptoms" /\ form.pc = "insertSymptoms"
  /\ \E o \in StoreOutcomes :
       /\ Charge(o)
       /\ symptomsTable' = IF o = "ok"
                           THEN Append(symptomsTable,
                                  [user_id |-> form.userId, symptoms |-> symptomsData(form.input),
                                   created_at |-> now, run |-> form.run])
                           ELSE symptomsTable
       /\ form' = IF o = "ok"
                  THEN [form EXCEPT !.primary = o, !.pc = "symptomInsight"]
                  ELSE FormFailed([form EXCEPT !.primary = o])
  /\ UNCHANGED formFixed
  /\ UNCHANGED <<runs, vitals, risks, alert, reminders, notifications, health_data, insights,
                 notifyLog>>

\* the health_insights insert of the symptom page, its result unread; then
\* critical = symptomsData.some(s => s.severity === "severe")
InsertSymptomInsight ==
  /\ form.kind = "symptoms" /\ form.pc = "symptomInsight"
  /\ \E o \in StoreOutcomes :
       LET critical == \E s \in symptomsData(form.input) : s.severity = "severe"
       IN /\ Charge(o)
          /\ insights' = IF o = "ok"
                         THEN Append(insights,
                                [user_id |-> form.userId, title |-> "Symptoms recorded",
                                 source |-> "client", created_at |-> now, run |-> form.run])
                         ELSE insights
          /\ form' = [form EXCEPT !.insight = o, !.critical = critical,
                                  !.pc = IF critical THEN "symptomEmail" ELSE "done"]
  /\ UNCHANGED formFixed
  /\ UNCHANGED <<runs, vitals, risks, alert, reminders, notifications, health_data,
                 symptomsTable, notifyLog>>

\* the auth user's email, with localStorage "user".email as the fallback
LookupSymptomEmail ==
  /\ form.kind = "symptoms" /\ form.pc = "symptomEmail"
  /\ \E o \in Outcomes :
       /\ Charge(o)
       /\ form' = [form EXCEPT !.pc = "symptomCarers",
                               !.patientEmail =
                                 IF o = "ok" /\ AuthEmail(form.userId) # "null"
                                 THEN AuthEmail(form.userId) ELSE StoredEmail(localStorage)]
  /\ UNCHANGED formFixed
  /\ UNCHANGED <<runs, vitals, risks, alert, reminders, notifications, health_data, insights,
                 symptomsTable, notifyLog>>

\* caregivers where user_id = userId or patient_id = userId; the Set of the
\* patient's and the caregivers' emails
LookupSymptomCarers ==
  /\ form.kind = "symptoms" /\ form.pc = "symptomCarers"
  /\ \E o \in StoreOutcomes :
       LET rows == IF o = "ok"
                   THEN {c \in caregivers : c.user_id = form.userId \/ c.patient_id = form.userId}
                   ELSE {}
           emails == (IF form.patientEmail # "null" THEN {form.patientEmail} ELSE {})
                     \cup {c.email : c \in {c \in rows : c.email # ""}}
       IN /\ Charge(o)
          /\ form' = [form EXCEPT !.emails = emails,
                                  !.pc = IF emails = {} THEN "done" ELSE "symptomNotify"]
  /\ UNCHANGED formFixed
  /\ UNCHANGED <<runs, vitals, risks, alert, reminders, notifications, health_data, insights,
                 symptomsTable, notifyLog>>

\* for (const to of emails) await fetch("/api/notify"): a rejected fetch
\* reaches the outer catch
NotifySymptom ==
  /\ form.kind = "symptoms" /\ form.pc = "symptomNotify"
  /\ \E o \in Outcomes :
       LET to == CHOOSE e \in form.emails : TRUE
           rest == form.emails \ {to}
       IN /\ Charge(o)
          /\ notifyLog' = Append(notifyLog, NotifyCall(form, to, "email", o))
          /\ form' = IF o = "throw" THEN FormFailed(form)
                     ELSE [form EXCEPT !.emails = rest,
                                       !.pc = IF rest = {} THEN "done" ELSE "symptomNotify"]
  /\ UNCHANGED formFixed
  /\ UNCHANGED <<runs, vitals, risks, alert, reminders, notifications, health_data, insights,
                 symptomsTable>>

\* what the user picked on the reminders page: Date & Time and Repeat
NotifyAts == {Null, Some(T0 - 1), Some(T0 + 48)}
RepeatChoices == {"none", "daily"}

\* the payload of handleAddReminder as the store keeps it
ReminderPayload(id, notifyAt, repeat) ==
  [id |-> id, title |-> "t", notify_at |-> notifyAt,
   repeat |-> IF repeat = "none" THEN "null" ELSE repeat,
   repeat_interval |-> 1, sent |-> FALSE]

\* reminders page, handleAddReminder with a title; the browser shows one page
\* at a time
AddReminder ==
  /\ ~FormBusy
  /\ runs < MaxRuns
  /\ runs' = runs + 1
  /\ \E notifyAt \in NotifyAts, repeat \in RepeatChoices, o \in StoreOutcomes :
       /\ Charge(o)
       /\ reminders' = IF o = "ok"
                       THEN Append(reminders,
                                   ReminderPayload(Len(reminders) + 1, notifyAt, repeat))
                       ELSE reminders
  /\ UNCHANGED formFixed
  /\ UNCHANGED <<vitals, risks, alert, form, notifications, health_data, insights,
                 symptomsTable, notifyLog>>

InitForms ==
  /\ ClockInit
  /\ env = EnvAllSet
  /\ MAILER_URL = FALSE
  /\ reminders = <<>>
  /\ caregivers \in FormCaregiverTables
  /\ notifications = <<>>
  /\ mailLog = <<>>
  /\ frame = [i \in Invs |-> IdleFrame]
  /\ GoalIdle
  /\ localStorage \in {[t |-> "absent", age |-> 0], LoginRecord}
  /\ vitals = [kind |-> "undefined"]
  /\ profile = [kind |-> "undefined"]
  /\ risks = Null
  /\ risks2 = Null
  /\ basicRisk = NoBasicRisk
  /\ alert = Null
  /\ session \in Owners \cup {"null"}
  /\ form = IdleForm
  /\ insights = <<>>
  /\ symptomsTable = <<>>
  /\ notifyLog = <<>>

NextForms ==
  \/ SubmitVitals
  \/ InsertHealthData
  \/ CreateInsight
  \/ InsertPatientNotification
  \/ InsertUrgentNotification
  \/ LookupPatientEmail
  \/ NotifyPatient
  \/ LookupCarers
  \/ InsertCarerNotification
  \/ NotifyCarerEmail
  \/ NotifyCarerSms
  \/ ScheduleFollowUp
  \/ SubmitSymptoms
  \/ InsertSymptoms
  \/ InsertSymptomInsight
  \/ LookupSymptomEmail
  \/ LookupSymptomCarers
  \/ NotifySymptom
  \/ AddReminder

SpecForms == InitForms /\ [][NextForms]_vars

\* --------------------------------------------------- producers and dispatcher
\* one reminder of the dispatcher's shape, goals of which some are missed, and
\* the reminders page
InitProducers ==
  /\ ClockInit
  /\ env = EnvAllSet
  /\ MAILER_URL = TRUE
  /\ reminders = << [id |-> 1] @@ Row("u1", "daily", T0 - 1, FALSE) >>
  /\ caregivers = { [patient_id |-> "u1", email |-> "cg@mail"] }
  /\ notifications = <<>>
  /\ mailLog = <<>>
  /\ frame = [i \in Invs |-> IdleFrame]
  /\ health_goals \in GoalTables
  /\ health_data \in HealthTables
  /\ checker = IdleChecker
  /\ EvalIdle

\* the goal checker, the reminders page and the dispatcher share the
\* reminders table
NextProducers ==
  \/ CheckerStart
  \/ FetchMetric
  \/ InsertReminder
  \/ AddReminder
  \/ HandlerStart(1)
  \/ CaregiverLookup(1)
  \/ InsertNotification(1)
  \/ SendMail(1)
  \/ PatchNotification(1)
  \/ PatchReminder(1)
  \/ Tick

SpecProducers == InitProducers /\ [][NextProducers]_vars

\* ----------------------------------------------------------------- claims
\* every call the handler made for the item answered with success
Clean(lg) ==
  /\ lg.cg = "ok" /\ lg.notif = "ok" /\ lg.mail = "ok"
  /\ lg.npatch = "ok" /\ lg.rpatch = "ok"

\* C1: a due reminder with repeat = none that one run dispatched successfully
\* has sent = true, a recorded sent timestamp and its due timestamp unchanged.
C1_NoneMarkedSent ==
  \A i \in Invs : \A k \in DOMAIN frame[i].due :
    LET r == frame[i].due[k]
    IN (r.repeat = "none" /\ Clean(frame[i].log[k]))
       => /\ reminders[r.id].sent = TRUE
          /\ reminders[r.id].sent_at # Null
          /\ reminders[r.id].remind_at = r.remind_at

C1_Witness ==
  \E i \in Invs : \E k \in DOMAIN frame[i].due :
    /\ frame[i].pc = "done"
    /\ frame[i].due[k].repeat = "none"
    /\ frame[i].due[k].sent = FALSE
    /\ Val(frame[i].due[k].remind_at) <= frame[i].runNow
    /\ Clean(frame[i].log[k])
    /\ reminders[frame[i].due[k].id].sent = TRUE

\* C2: a due reminder with repeat = daily that one run dispatched has
\* sent = false and its due timestamp one calendar day (24 h, UTC) later.
C2_DailyAdvancesOneDay ==
  \A i \in Invs : \A k \in DOMAIN frame[i].due :
    LET r == frame[i].due[k]
    IN (r.repeat = "daily" /\ frame[i].log[k].rpatch = "ok")
       => /\ reminders[r.id].sent = FALSE
          /\ reminders[r.id].remind_at = Some(Val(r.remind_at) + 24)

C2_Witness ==
  \E i \in Invs : \E k \in DOMAIN frame[i].due :
    /\ frame[i].pc = "done"
    /\ frame[i].due[k].repeat = "daily"
    /\ frame[i].log[k].rpatch = "ok"
    /\ getDate(Val(frame[i].due[k].remind_at)) = 31
    /\ getDate(Val(reminders[frame[i].due[k].id].remind_at)) = 1

\* mail-relay calls and Notification rows of run n for reminder id
MailCalls(n, id) == {m \in DOMAIN mailLog : mailLog[m].run = n /\ mailLog[m].reminder_id = id}
NotifRows(n, id) ==
  {m \in DOMAIN notifications : notifications[m].run = n /\ notifications[m].reminder_id = id}

\* C3 (as claimed): every due reminder with a repeat policy, once processed, has
\* sent = false and a due timestamp strictly later than the time of the run.
C3_RepeatingGetsFutureDue ==
  \A i \in Invs : \A k \in DOMAIN frame[i].due :
    LET r == frame[i].due[k]
    IN (r.repeat \in {"daily", "weekly", "monthly"} /\ frame[i].log[k].rpatch = "ok")
       => /\ reminders[r.id].sent = FALSE
          /\ Val(reminders[r.id].remind_at) > frame[i].runNow

\* C4: a due reminder whose owner has no caregiver with a non-empty email, or
\* whose caregiver lookup failed, causes no mail-relay call; its Notification
\* insert is still issued, its repeat-policy transition still applied and it is
\* reported in the run's results.
C4_NoRecipientsStillProcessed ==
  \A i \in Invs : \A k \in DOMAIN frame[i].due :
    LET f == frame[i]
        r == f.due[k]
        lg == f.log[k]
        noEmail == {c \in caregivers : c.patient_id = r.user_id /\ c.email # ""} = {}
    IN ((noEmail \/ lg.cg \in {"fail", "throw"}) /\ lg.notif # "none")
       => /\ MailCalls(f.run, r.id) = {}
          /\ lg.notif = "ok" => Cardinality(NotifRows(f.run, r.id)) = 1
          /\ lg.notif \in {"ok", "fail"} /\ f.pc = "done" => lg.rpatch # "none"
          /\ lg.rpatch = "ok" =>
               IF r.repeat \in {"null", "none"}
               THEN reminders[r.id].sent = TRUE /\ reminders[r.id].remind_at = r.remind_at
               ELSE /\ reminders[r.id].sent = FALSE
                    /\ r.repeat \in {"daily", "weekly", "monthly"}
                         => Val(reminders[r.id].remind_at) > Val(r.remind_at)
          /\ lg.rpatch \in {"ok", "fail"} /\ f.response.status = 200
               => \E j \in DOMAIN f.response.results : f.response.results[j].id = r.id

C4_Witness ==
  \E i \in Invs : \E k \in DOMAIN frame[i].due :
    /\ frame[i].pc = "done"
    /\ frame[i].response.status = 200
    /\ {c \in caregivers : c.patient_id = frame[i].due[k].user_id /\ c.email # ""} = {}
    /\ {c \in caregivers : c.patient_id = frame[i].due[k].user_id} # {}
    /\ frame[i].log[k].rpatch = "ok"
    /\ frame[i].due[k].repeat = "daily"
    /\ NotifRows(frame[i].run, frame[i].due[k].id) # {}

\* no call of the run for the item failed, and the mail relay is configured
NoFailure(lg) ==
  /\ MAILER_URL
  /\ \A o \in {lg.cg, lg.notif, lg.mail, lg.npatch, lg.rpatch} : o \notin {"fail", "throw"}

\* C5: in a run where every due reminder's owner has a caregiver with an email
\* and every external call succeeds, each due reminder gets exactly one
\* mail-relay call and exactly one Notification row.
C5_OneMailOneNotificationPerDue ==
  \A i \in Invs :
    LET f == frame[i]
    IN (/\ f.pc = "done"
        /\ f.fetch = "ok"
        /\ \A k \in DOMAIN f.due :
             /\ NoFailure(f.log[k])
             /\ \E c \in caregivers : c.patient_id = f.due[k].user_id /\ c.email # "")
       => /\ \A k \in DOMAIN f.due :
               /\ Cardinality(MailCalls(f.run, f.due[k].id)) = 1
               /\ Cardinality(NotifRows(f.run, f.due[k].id)) = 1
          /\ Cardinality({m \in DOMAIN mailLog : mailLog[m].run = f.run}) = Len(f.due)
          /\ Cardinality({m \in DOMAIN notifications : notifications[m].run = f.run}) = Len(f.due)

\* the end-to-end scenario: T-1h daily and T-2h none of one owner, run at T
C5_Witness ==
  \E i \in Invs :
    LET f == frame[i]
    IN /\ f.pc = "done" /\ f.fetch = "ok" /\ Len(f.due) = 2
       /\ \A k \in DOMAIN f.due : NoFailure(f.log[k]) /\ f.due[k].user_id = "u1"
       /\ \E c \in caregivers : c.patient_id = "u1" /\ c.email # ""
       /\ f.due[1].repeat = "daily" /\ Val(f.due[1].remind_at) = f.runNow - 1
       /\ f.due[2].repeat = "none" /\ Val(f.due[2].remind_at) = f.runNow - 2
       /\ Len(mailLog) = 2 /\ Len(notifications) = 2
       /\ reminders[f.due[1].id].sent = FALSE
       /\ Val(reminders[f.due[1].id].remind_at) = f.runNow - 1 + 24
       /\ reminders[f.due[2].id].sent = TRUE

\* C6: a run whose due query succeeded holds exactly the rows with sent = false
\* and due timestamp <= the run's time; no mail-relay call and no Notification
\* row of the run is for another row, and no other row is ever modified.
C6_Selected ==
  \A i \in Invs :
    LET f == frame[i]
        dueIds == {f.due[k].id : k \in DOMAIN f.due}
    IN f.fetch = "ok"
       => /\ \A k \in DOMAIN f.due :
               f.due[k].sent = FALSE /\ Val(f.due[k].remind_at) <= f.runNow
          /\ \A id \in DOMAIN reminders \ dueIds :
               ~(reminders[id].sent = FALSE /\ Val(reminders[id].remind_at) <= f.runNow)
          /\ \A m \in DOMAIN mailLog : mailLog[m].run = f.run => mailLog[m].reminder_id \in dueIds
          /\ \A m \in DOMAIN notifications :
               notifications[m].run = f.run => notifications[m].reminder_id \in dueIds

C6_OnlyDueModified ==
  \A id \in DOMAIN reminders :
    reminders'[id] # reminders[id]
    => \E i \in Invs : \E k \in DOMAIN frame[i].due :
         /\ frame[i].due[k].id = id
         /\ reminders[id].sent = FALSE
         /\ Val(reminders[id].remind_at) <= frame[i].runNow

C6_ExactlyDueProcessed == [](C6_Selected) /\ [][C6_OnlyDueModified]_vars

C6_Witness ==
  \E i \in Invs :
    /\ frame[i].pc = "done" /\ frame[i].fetch = "ok" /\ Len(frame[i].due) = 1
    /\ frame[i].log[1].rpatch = "ok"
    /\ \E a, b \in DOMAIN reminders :
         /\ reminders[a].sent = TRUE /\ reminders[a].sent_at = Null
         /\ reminders[b].sent = FALSE /\ Val(reminders[b].remind_at) > frame[i].runNow
         /\ reminders[b].repeat = "daily"

\* C7 (as claimed): a failed mail-relay call (non-success response, raised
\* error, relay not configured) does not keep the run from issuing the
\* reminder's state transition.
C7_MailFailureKeepsTransition ==
  \A i \in Invs : \A k \in DOMAIN frame[i].due :
    (frame[i].pc = "done" /\ frame[i].log[k].mail \in {"fail", "throw", "unconfigured"})
    => frame[i].log[k].rpatch # "none"

\* C8 (as claimed): once the due query has succeeded, no failure of a
\* recipient lookup, mail-relay call or store write aborts the run: it ends
\* with its normal summary over the whole candidate list.
C8_NoItemFailureAborts ==
  \A i \in Invs :
    (frame[i].pc = "done" /\ frame[i].fetch = "ok")
    => /\ frame[i].response.status = 200
       /\ frame[i].response.ok
       /\ frame[i].response.processed = Len(frame[i].due)

\* C9: every Notification row has channel email; it is pending until the mail
\* call of the same run for the same reminder has succeeded, and only then may
\* it be sent.
C9_NotificationStatus ==
  \A n \in DOMAIN notifications :
    LET row == notifications[n]
        mailOk == \E m \in MailCalls(row.run, row.reminder_id) : mailLog[m].outcome = "ok"
    IN /\ row.channel = "email"
       /\ row.status \in {"pending", "sent"}
       /\ ~mailOk => row.status = "pending"

C9_Witness ==
  /\ \E n \in DOMAIN notifications : notifications[n].status = "sent"
  /\ \E n \in DOMAIN notifications :
       /\ notifications[n].status = "pending"
       /\ \E m \in MailCalls(notifications[n].run, notifications[n].reminder_id) :
            mailLog[m].outcome = "fail"

\* C10: for every snapshot (null, undefined, fields absent, null or
\* non-numeric) computeRisks returns a mapping over the eight diseases whose
\* values are all integers in [0,100].
C10_RisksInRange ==
  risks # Null =>
    /\ DOMAIN Val(risks) = {"diabetes", "hypertension", "heartDisease", "stroke",
                            "alzheimer", "copd", "kidneyDisease", "obesity"}
    /\ \A k \in DOMAIN Val(risks) : Val(risks)[k] \in 0..100

\* the evaluator has returned for a snapshot with absent, null and string
\* fields whose stroke score 52 + 22 + 14 + 18 is capped to 99
C10_Witness ==
  /\ risks # Null
  /\ vitals.kind = "object"
  /\ vitals.heart_rate = Undef
  /\ vitals.weight = JNull
  /\ vitals.systolic_bp = NumStr(160)
  /\ vitals.blood_sugar = Num(200)
  /\ Val(risks).stroke = 99

\* C11: two calls of computeRisks on one snapshot return the same mapping,
\* whatever localStorage holds at the time of each call.
C11_SameInputSameOutput ==
  (risks # Null /\ risks2 # Null) => risks = risks2

\* C12: a reading that is not fasting with blood sugar 200 scores exactly 95
\* in each basic scorer, whatever the weight and the profile age.
C12_NonFasting200Is95 ==
  (/\ vitals.kind = "object"
   /\ vitals.blood_sugar \in {Num(200), NumStr(200)}
   /\ vitals.blood_sugar_type # "fasting")
  => \A variant \in DOMAIN basicRisk :
       basicRisk[variant] # Null => Val(basicRisk[variant]) = 95

\* C13: computeRisks gives diabetes 95 to every snapshot with blood sugar >= 200
\* and hypertension 98 to every snapshot with systolic >= 180 or diastolic >= 120.
C13_ThresholdConstants ==
  (risks # Null /\ vitals.kind = "object") =>
    /\ (vitals.blood_sugar.t \in {"num", "numstr"} /\ vitals.blood_sugar.v >= 200)
         => Val(risks).diabetes = 95
    /\ (\/ (vitals.systolic_bp.t \in {"num", "numstr"} /\ vitals.systolic_bp.v >= 180)
        \/ (vitals.diastolic_bp.t \in {"num", "numstr"} /\ vitals.diastolic_bp.v >= 120))
         => Val(risks).hypertension = 98

\* C14: shouldAlert answers true exactly when diabetes >= 80 or hypertension >= 90
\* or heartDisease >= 85, a missing entry counting as 0 and a missing mapping
\* giving false.
C14_AlertIffThreshold ==
  alert # Null =>
    Val(alert) =
      (/\ risks # Null
       /\ LET m == Val(risks)
              d == IF "diabetes" \in DOMAIN m THEN m["diabetes"] ELSE 0
              h == IF "hypertension" \in DOMAIN m THEN m["hypertension"] ELSE 0
              hd == IF "heartDisease" \in DOMAIN m THEN m["heartDisease"] ELSE 0
          IN d >= 80 \/ h >= 90 \/ hd >= 85)

\* hypertension alone, exactly at its threshold, raises the alert
C14_Witness ==
  /\ alert = Some(TRUE)
  /\ risks # Null
  /\ DOMAIN Val(risks) = {"hypertension"}
  /\ Val(risks)["hypertension"] = 90

\* the readings of one user, and the one with the latest timestamp
UserReadings(u) == {health_data[k] : k \in {k \in DOMAIN health_data : health_data[k].user_id = u}}
LatestReading(u) ==
  CHOOSE r \in UserReadings(u) : \A q \in UserReadings(u) : q.timestamp <= r.timestamp

\* the non-null values of a metric among a set of readings, added up
RECURSIVE SumOver(_, _)
SumOver(rs, metric) ==
  IF rs = {} THEN 0
  ELSE LET r == CHOOSE r \in rs : TRUE
       IN (IF r[metric] = Null THEN 0 ELSE Val(r[metric])) + SumOver(rs \ {r}, metric)

\* the readings of one user inside the window of the goal's period at time t
WindowReadings(g, t) ==
  {r \in UserReadings(Val(g.user_id)) :
     r.timestamp >= startOfPeriod(IF g.period = "null" THEN "daily" ELSE g.period, t)}

\* C15: with the metric available, a weight goal is missed exactly when the
\* latest logged weight is above the target, and any other goal exactly when the
\* values logged inside the window sum to less than the target.
C15_MissedDecision ==
  \A k \in DOMAIN checker.log :
    LET l == checker.log[k]
        g == checker.goals[k]
    IN l.metric = "ok" =>
         IF g.metric = "weight"
         THEN (UserReadings(Val(g.user_id)) # {} /\ LatestReading(Val(g.user_id)).weight # Null)
                => (l.missed <=> Val(LatestReading(Val(g.user_id)).weight) > g.goal_value)
         ELSE (\E r \in WindowReadings(g, l.at) : r[g.metric] # Null)
                => (l.missed <=> SumOver(WindowReadings(g, l.at), g.metric) < g.goal_value)

\* a steps goal whose window sum equals the target is met, and so is a weight
\* goal whose latest weight equals the target
C15_Witness ==
  /\ \E k \in DOMAIN checker.log :
       /\ checker.goals[k].metric = "steps"
       /\ checker.log[k].metric = "ok"
       /\ checker.log[k].value = Some(checker.goals[k].goal_value)
       /\ checker.goals[k].goal_value > 0
       /\ ~checker.log[k].missed
  /\ \E k \in DOMAIN checker.log :
       /\ checker.goals[k].metric = "weight"
       /\ checker.log[k].metric = "ok"
       /\ checker.log[k].value = Some(checker.goals[k].goal_value)
       /\ ~checker.log[k].missed

\* C16: a goal whose metric is unavailable (no reading of the user in the store,
\* a null value in the latest reading, or a failed fetch) is decided missed.
C16_UnavailableIsMissed ==
  \A k \in DOMAIN checker.log :
    LET l == checker.log[k]
        g == checker.goals[k]
    IN (/\ l.metric \in {"ok", "fail"}
        /\ \/ l.metric = "fail"
           \/ UserReadings(Val(g.user_id)) = {}
           \/ LatestReading(Val(g.user_id))[g.metric] = Null)
       => l.missed

\* the reminders one run of the goal checker inserted for one goal
InsertedFor(run, g) ==
  {j \in DOMAIN reminders :
     /\ reminders[j].run = run
     /\ reminders[j].title = g.name
     /\ reminders[j].user_id = Val(g.user_id)}

C17_RunInserts ==
  (checker.pc = "exited" /\ checker.exitCode = Some(0)) =>
    \A k \in DOMAIN checker.log :
      LET l == checker.log[k]
          g == checker.goals[k]
      IN g.user_id # Null =>
           /\ (l.missed /\ l.ins = "ok") =>
                /\ Cardinality(InsertedFor(checker.run, g)) = 1
                /\ \A j \in InsertedFor(checker.run, g) :
                     /\ reminders[j].notify_at = Some(l.at)
                     /\ "repeat" \notin DOMAIN reminders[j]
           /\ ~l.missed => InsertedFor(checker.run, g) = {}

\* C17: a run that ends normally has inserted exactly one reminder, due at once
\* and without repeat, for each goal it decided missed and none for a goal it
\* decided met, whatever earlier runs inserted; no step changes a goal row.
C17_OneReminderPerMissedGoal ==
  /\ []C17_RunInserts
  /\ [][health_goals' = health_goals]_vars

\* the second run inserted a reminder for a goal the first run had already
\* inserted one for
C17_Witness ==
  /\ checker.pc = "exited" /\ checker.exitCode = Some(0) /\ checker.run = 2
  /\ \E k \in DOMAIN checker.log :
       /\ checker.log[k].missed /\ checker.log[k].ins = "ok"
       /\ InsertedFor(1, checker.goals[k]) # {}
       /\ InsertedFor(2, checker.goals[k]) # {}

\* C18: a reminder that a finished run processed without recipients is not
\* selected by the next run for the same due timestamp.
C18_NotSelectedAgain ==
  [][(frame[1].pc = "done" /\ frame'[1].run # frame[1].run) =>
       \A k \in DOMAIN frame[1].due :
         LET r == frame[1].due[k]
             lg == frame[1].log[k]
         IN (/\ lg.cg = "ok"
             /\ \A c \in caregivers : c.patient_id = r.user_id => c.email = ""
             /\ lg.rpatch = "ok")
            => \A j \in DOMAIN frame'[1].due :
                 frame'[1].due[j].id = r.id => frame'[1].due[j].remind_at # r.remind_at]_vars

\* C19: with SUPABASE_URL or the service key unset the dispatcher issues no store
\* request, makes no mail call and answers with a failure.
C19_MissingConfigNoWork ==
  (~env.SUPABASE_URL \/ ~env.SUPABASE_KEY) =>
    /\ storeReqs = 0
    /\ mailLog = <<>>
    /\ \A i \in Invs : frame[i].pc = "done" =>
         (~frame[i].response.ok /\ frame[i].response.status # 200)

\* C20: a goal checker run whose fetch of the active goals failed processes no
\* goal and exits with a non-zero code.
C20_FetchFailureFails ==
  (checker.pc = "exited" /\ checker.fetch \in {"fail", "throw"}) =>
    /\ checker.exitCode = Some(1)
    /\ checker.log = <<>>

\* C21: a due reminder with repeat = weekly that one run dispatched has its due
\* timestamp exactly 7 days later, one with repeat = monthly has it on the same
\* day of the month and at the same time in the following month; sent stays false.
C21_WeeklyMonthlyAdvance ==
  \A i \in Invs : \A k \in DOMAIN frame[i].due :
    LET r == frame[i].due[k]
        old == Val(r.remind_at)
        new == Val(reminders[r.id].remind_at)
    IN /\ (r.repeat = "weekly" /\ frame[i].log[k].rpatch = "ok")
            => (reminders[r.id].sent = FALSE /\ new = old + 7 * 24)
       /\ (r.repeat = "monthly" /\ frame[i].log[k].rpatch = "ok")
            => /\ reminders[r.id].sent = FALSE
               /\ getDate(new) = getDate(old)
               /\ getHours(new) = getHours(old)
               /\ getMonth(new) = (getMonth(old) + 1) % 12
               /\ getFullYear(new) = getFullYear(old) + (IF getMonth(old) = 11 THEN 1 ELSE 0)

\* C25: for a due reminder with a recipient and a configured relay, the mail
\* call has been made by the time the Notification insert is issued.
C25_MailBeforeNotification ==
  \A i \in Invs : \A k \in DOMAIN frame[i].log :
    LET r == frame[i].due[k]
        lg == frame[i].log[k]
    IN (/\ MAILER_URL
        /\ lg.cg = "ok"
        /\ \E c \in caregivers : c.patient_id = r.user_id /\ c.email # ""
        /\ lg.notif # "none")
       => lg.mail \in {"ok", "fail", "throw"}

\* C29: a reminder with repeat daily, weekly, monthly or custom that one run
\* dispatched either has sent = true or a due timestamp later than before.
C29_ProcessingMakesProgress ==
  \A i \in Invs : \A k \in DOMAIN frame[i].due :
    LET r == frame[i].due[k]
    IN (r.repeat \in {"daily", "weekly", "monthly", "custom"} /\ frame[i].log[k].rpatch = "ok")
       => \/ reminders[r.id].sent = TRUE
          \/ Val(reminders[r.id].remind_at) > Val(r.remind_at)

\* C22: the window start the goal checker computes is 00:00 of the current day
\* for daily, 00:00 of the most recent Monday for weekly (the day itself on a
\* Monday, six days back on a Sunday), 00:00 of the first day of the current
\* month for monthly, and never later than the current time.
C22_WindowStart ==
  \A k \in DOMAIN checker.log :
    LET l == checker.log[k]
        g == checker.goals[k]
        s == l.periodStart
        t == l.at
        back == (t \div 24) - (s \div 24)
    IN l.metric \in {"ok", "fail"} =>
         /\ s <= t
         /\ getHours(s) = 0
         /\ g.period = "daily" => back = 0
         /\ g.period = "weekly" =>
              /\ getDay(s) = 1
              /\ back \in 0..6
              /\ getDay(t) = 1 => back = 0
              /\ getDay(t) = 0 => back = 6
         /\ g.period = "monthly" =>
              /\ getDate(s) = 1
              /\ getMonth(s) = getMonth(t)
              /\ getFullYear(s) = getFullYear(t)

\* a weekly goal checked on a Sunday whose week began in the year before
C22_Witness ==
  \E k \in DOMAIN checker.log :
    /\ checker.log[k].metric = "ok"
    /\ checker.goals[k].period = "weekly"
    /\ getDay(checker.log[k].at) = 0
    /\ getFullYear(checker.log[k].at) = 2023
    /\ checker.log[k].periodStart = MakeTime(2023, 11, 25, 0)

\* the item of frame i that holds reminder id, 0 when there is none
ItemOf(i, id) ==
  IF \E k \in DOMAIN frame[i].due : frame[i].due[k].id = id
  THEN CHOOSE k \in DOMAIN frame[i].due : frame[i].due[k].id = id
  ELSE 0

\* both invocations fetched reminder id in the same stored state and each
\* carried it through to an answered reminder update
BothProcessed(id) ==
  /\ frame[1].run # frame[2].run
  /\ \A i \in Invs :
       /\ frame[i].fetch = "ok"
       /\ ItemOf(i, id) # 0
       /\ frame[i].log[ItemOf(i, id)].rpatch = "ok"
  /\ frame[1].due[ItemOf(1, id)] = frame[2].due[ItemOf(2, id)]

\* C27: two invocations that both read the due set before either updated a
\* reminder both process it: each issues its own mail-relay call and inserts
\* its own Notification row for that reminder.
C27_OverlapDuplicates ==
  \A id \in DOMAIN reminders :
    (/\ BothProcessed(id)
     /\ \A i \in Invs : NoFailure(frame[i].log[ItemOf(i, id)]))
    => \A i \in Invs :
         /\ Cardinality(MailCalls(frame[i].run, id)) = 1
         /\ Cardinality(NotifRows(frame[i].run, id)) = 1

\* a one-shot reminder handled twice: the second invocation can only hold it
\* because it fetched before the first marked it sent
C27_Witness ==
  \E id \in DOMAIN reminders :
    /\ BothProcessed(id)
    /\ \A i \in Invs : NoFailure(frame[i].log[ItemOf(i, id)]) /\ frame[i].pc = "done"
    /\ frame[1].due[ItemOf(1, id)].repeat = "none"
    /\ frame[1].runNow = frame[2].runNow
    /\ reminders[id].sent = TRUE
    /\ Cardinality({m \in DOMAIN mailLog : mailLog[m].reminder_id = id}) = 2
    /\ Cardinality({n \in DOMAIN notifications : notifications[n].reminder_id = id}) = 2

\* C30: two invocations that process the same due repeating reminder from the
\* same snapshot leave its due time advanced by exactly one interval, because
\* both write the same next value.
C30_OverlapAdvancesOnce ==
  \A id \in DOMAIN reminders :
    LET r == frame[1].due[ItemOf(1, id)]
        old == Val(r.remind_at)
        new == Val(reminders[id].remind_at)
    IN (BothProcessed(id) /\ r.repeat \in {"daily", "weekly", "monthly"})
       => /\ reminders[id].sent = FALSE
          /\ r.repeat = "daily" => new = old + 24
          /\ r.repeat = "weekly" => new = old + 7 * 24
          /\ r.repeat = "monthly" => new = setMonth(old, getMonth(old) + 1)

\* the daily reminder due at T0 - 1h after both invocations patched it
C30_Witness ==
  \E id \in DOMAIN reminders :
    /\ BothProcessed(id)
    /\ \A i \in Invs : frame[i].pc = "done"
    /\ frame[1].due[ItemOf(1, id)].repeat = "daily"
    /\ frame[1].due[ItemOf(1, id)].remind_at = Some(T0 - 1)
    /\ reminders[id].remind_at = Some(T0 + 23)

\* the primary row (health_data or symptoms) of form submission n is stored
PrimaryStored(n) ==
  \/ \E k \in DOMAIN health_data : health_data[k].run = n
  \/ \E k \in DOMAIN symptomsTable : symptomsTable[k].run = n

\* C23: one call of createInsightForUser makes exactly one insert into
\* health_insights, with the current time as timestamp, and touches no other
\* row; when the insert fails the caller learns it, the caller's health_data
\* row stays stored and the caller's remaining steps still run.
C23_InsightBestEffort ==
  /\ [][(form.kind = "vitals" /\ form.pc = "insight" /\ form' # form)
        => /\ health_data' = health_data
           /\ notifications' = notifications
           /\ reminders' = reminders
           /\ symptomsTable' = symptomsTable
           /\ notifyLog' = notifyLog
           /\ \/ insights' = insights /\ form'.insight = "fail"
              \/ /\ Len(insights') = Len(insights) + 1
                 /\ SubSeq(insights', 1, Len(insights)) = insights
                 /\ insights'[Len(insights')].user_id = form.userId
                 /\ insights'[Len(insights')].created_at = now
                 /\ form'.insight = "ok"
           /\ form'.pc = "notification"
           /\ \E k \in DOMAIN health_data' : health_data'[k].run = form.run]_vars
  /\ [](form.kind = "vitals" /\ form.insight = "fail" /\ form.pc \in {"done", "failed"}
        => /\ form.pc = "done"
           /\ form.primary = "ok"
           /\ \E k \in DOMAIN health_data : health_data[k].run = form.run
           /\ form.notif # "none"
           /\ form.moderate => form.followUp # "none")

\* an urgent reading whose insight insert failed: the reading is stored, the
\* notification was inserted and the notifier was called
C23_Witness ==
  /\ form.kind = "vitals" /\ form.pc = "done"
  /\ form.insight = "fail" /\ form.notif = "ok" /\ form.urgent
  /\ \E k \in DOMAIN health_data : health_data[k].run = form.run
  /\ ~\E k \in DOMAIN insights : insights[k].run = form.run
  /\ \E m \in DOMAIN notifyLog : notifyLog[m].run = form.run
  /\ form.followUp = "ok"

\* C24: every Insight, Notification and Reminder row carries a non-null owner
\* id that refers to an existing owner.
C24_RowsHaveOwner ==
  \A tbl \in {insights, notifications, reminders} :
    \A k \in DOMAIN tbl :
      /\ "user_id" \in DOMAIN tbl[k]
      /\ tbl[k].user_id \in Owners

ProducedDue(k, t) ==
  /\ "notify_at" \in DOMAIN reminders[k]
  /\ reminders[k].notify_at # Null
  /\ Val(reminders[k].notify_at) <= t

\* C28: every reminder the goal checker or the reminders page wrote whose due
\* time has been reached is among the rows the next dispatcher run fetches.
C28_ProducedReminderSelected ==
  [][(frame'[1].run # frame[1].run /\ frame'[1].fetch = "ok")
     => \A k \in DOMAIN reminders :
          ProducedDue(k, now) => \E j \in DOMAIN frame'[1].due : frame'[1].due[j].id = k]_vars

====
